---- MODULE Spec2Model ----
(***************************************************************************)
(* Verification model of ICTTradingBuddy: the tick -> candle -> score ->   *)
(* price levels -> trade lifecycle pipeline.                               *)
(*                                                                         *)
(* Units.  Prices are integers counted in 1/40 point (0.025), so that a    *)
(* quarter point is 10 and 0.5 x ATR, 1.5 x range and the half-quarter     *)
(* rounding ties are exact.  Timestamp strings ("%Y-%m-%dT%H:%M:%S.mmm")   *)
(* are integers counted in milliseconds, datetime objects are integers     *)
(* counted in microseconds.  Money is counted in 1/40 dollar.  A missing   *)
(* value (None, NaN) is the empty sequence <<>> and a present value v is   *)
(* <<v>>; every comparison with a missing value is false, as with NaN.     *)
(*                                                                         *)
(* Specifications.                                                         *)
(*   Spec       the trade lifecycle: Buffer, Recommendation, Trader and    *)
(*              process_symbol over one Assistant ("buddy").  Every        *)
(*              public method of the collaborating objects is an action,   *)
(*              so that Trader.check_trading is exercised on every buffer  *)
(*              content its callers can build, and process_symbol is the   *)
(*              composite handler that the dashboard runs.                 *)
(*   SpecRec    StratICT.make_rec on one frame of inputs (candles of       *)
(*              tracker 0, tick, detected zones): the scoring of one       *)
(*              offset variant, and the resolution of direction, entry,    *)
(*              stop-loss and take-profit from the collected scores.       *)
(*   SpecCandle one CandleTracker of some duration and offset, fed with    *)
(*              ticks.                                                     *)
(*   SpecBlocks a candle history that grows by one closed candle, with     *)
(*              the order blocks detected on it and their merged zone.     *)
(*   SpecManager the trackers of one OffsetCandleManager fed the same      *)
(*              ticks, some of which lack keys.                            *)
(*   SpecLevels entry, stop-loss and take-profit on inputs without any     *)
(*              order block, fair-value gap or liquidity pool.             *)
(*   SpecAnchors entry, stop-loss and take-profit on every combination of  *)
(*              order-block range, liquidity pools, FVG zones and VWAP.    *)
(*   SpecFvg    the fair-value-gap score of a price against a list of      *)
(*              gaps, for both directions.                                 *)
(*   SpecHold   an open trade under ticks that never stop arriving, with   *)
(*              weak fairness on the arrival of the next tick.             *)
(*   SpecSweep  the liquidity pools detected on a candle history and the   *)
(*              sweep scores of that history against them.                 *)
(***************************************************************************)
EXTENDS Integers, Sequences, FiniteSets, TLC

VARIABLES
    last_tick,   \* Assistant.last_tick: <<>> ({}), or <<[timestamp, last]>>
    cur_start,   \* CandleTracker._current["time_start"] of the 1-minute trackers
    nrows,       \* len(CandleTracker.df) of the 1-minute trackers
    buff,        \* Buffer.df: rows in index order
    rec,         \* the Recommendation of the buddy
    trader,      \* the Trader of the buddy
    ticks,       \* number of ticks produced so far
    phase,       \* how far the current tick has been handled
    checks,      \* check_trading calls made on the current tick
    did,         \* the branch the last call took
    closed,      \* claimed profits of the closed trades, oldest first
    frame,       \* StratICT.make_rec: the inputs and locals of the call under study
    tracker,     \* one CandleTracker: duration, offset, _current, _last_volume, df
    fed          \* the ticks given to the tracker, oldest first, with their candle

vars == <<last_tick, cur_start, nrows, buff, rec, trader, ticks, phase, checks, did, closed,
          frame, tracker, fed>>

----------------------------------------------------------------------------
(* Missing values *)

NaN == <<>>
Some(v) == <<v>>
IsNum(x) == x # <<>>
Num(x) == x[1]

\* Python/NumPy comparisons: false as soon as one side is NaN.
Gt(a, b) == IsNum(a) /\ IsNum(b) /\ Num(a) > Num(b)
Ge(a, b) == IsNum(a) /\ IsNum(b) /\ Num(a) >= Num(b)
Le(a, b) == IsNum(a) /\ IsNum(b) /\ Num(a) <= Num(b)

Abs(n) == IF n < 0 THEN -n ELSE n

RECURSIVE SumSeq(_)
SumSeq(s) == IF s = <<>> THEN 0 ELSE Head(s) + SumSeq(Tail(s))

----------------------------------------------------------------------------
(* Units and program constants *)

Quarter == 10                     \* 0.25 point
Point == 4 * Quarter
MsPerSec == 1000
UsPerMs == 1000

entry_ratio_threshold == 2        \* Trader.__init__ default
starting_balance == 10000         \* Trader.__init__ default
data_gather_time == 2             \* Setup.data_gather_time
points_to_dollars == 1            \* Setup.POINTS_TO_DOLLARS["test"]
FEE_PER_CONTRACT_2_WAYS == 2      \* Assistant.__init__ default

(* Bounds *)
MaxTicks == 4                     \* ticks produced in one run
MaxChecks == 3                    \* check_trading calls on one tick
lookback == 2                     \* Trader.lookback (constructor parameter, default 10)

TickPrices == {100 * Point - 2 * Quarter, 100 * Point, 100 * Point + 2 * Quarter}
TickDeltas == {120 * MsPerSec}     \* milliseconds between two ticks

----------------------------------------------------------------------------
(* StratICT: direction, contracts (full make_rec is modelled further down) *)

\* StratICT.make_rec line 94: True / False / None
IsLong(rec_val) ==
    IF rec_val > entry_ratio_threshold THEN "True"
    ELSE IF rec_val < -entry_ratio_threshold THEN "False"
    ELSE "None"

\* StratICT.make_rec line 103: None is falsy
Direction(is_long) == IF is_long = "True" THEN "long" ELSE "short"

GetNumContracts(r) == IF Abs(r) > 8 THEN 3 ELSE IF Abs(r) > 5 THEN 2 ELSE 1

----------------------------------------------------------------------------
(* Recommendation *)

RecInit ==
    [val |-> NaN, position |-> "None", entry |-> NaN, sl |-> NaN, tp |-> NaN,
     timestamp |-> NaN, timeout |-> NaN, num_contracts |-> NaN, valid |-> "unset"]

\* Recommendation.update_trade: eight fields overwritten, `valid` untouched
update_trade(r, val, position, entry, sl, tp, timestamp, timeout, num_contracts) ==
    [r EXCEPT !.val = val, !.position = position, !.entry = entry,
              !.sl = sl, !.tp = tp, !.timestamp = timestamp,
              !.timeout = timeout, !.num_contracts = num_contracts]

----------------------------------------------------------------------------
(* Buffer *)

EmptyRow(ts) ==
    [ts |-> ts, is_long |-> "NaN", confidence |-> NaN, entry |-> NaN,
     stop_loss |-> NaN, timeout |-> NaN, take_profit |-> NaN, num_contracts |-> NaN,
     actual_revenue |-> NaN, actual_profit |-> NaN, time_in_trade |-> NaN]

InIndex(df, ts) == \E i \in 1..Len(df) : df[i].ts = ts

\* Buffer.write_features_to_buff: a new row keyed by the tick's timestamp; the
\* tick's feature columns are not kept in the model, the other columns are NaN.
write_features_to_buff(df, tick_data) == Append(df, EmptyRow(tick_data.timestamp))

\* Processor.process_symbol lines 42-53: the dict logged for a recommendation
RecData(r) ==
    [is_long |-> IF r.position = "long" THEN "1"
                 ELSE IF r.position = "None" THEN "NaN" ELSE "short",
     confidence |-> r.val, entry |-> r.entry, stop_loss |-> r.sl,
     timeout |-> r.timeout, take_profit |-> r.tp, num_contracts |-> r.num_contracts]

\* Buffer.write_recs_to_buff: only when the recommendation's timestamp is a key
write_recs_to_buff(df, r, recs) ==
    IF IsNum(r.timestamp) /\ InIndex(df, Num(r.timestamp))
    THEN [i \in 1..Len(df) |->
            IF df[i].ts = Num(r.timestamp)
            THEN [df[i] EXCEPT !.is_long = recs.is_long, !.confidence = recs.confidence,
                               !.entry = recs.entry, !.stop_loss = recs.stop_loss,
                               !.timeout = recs.timeout, !.take_profit = recs.take_profit,
                               !.num_contracts = recs.num_contracts]
            ELSE df[i]]
    ELSE df

\* Buffer.write_res_to_buff
write_res_to_buff(df, ts, actual_rev, actual_profit, time_in_trade) ==
    [i \in 1..Len(df) |->
        IF df[i].ts = ts
        THEN [df[i] EXCEPT !.actual_revenue = Some(actual_rev),
                           !.actual_profit = Some(actual_profit),
                           !.time_in_trade = Some(time_in_trade)]
        ELSE df[i]]

\* DataFrame.tail(n)
TailRows(df, n) == IF Len(df) <= n THEN df ELSE SubSeq(df, Len(df) - n + 1, Len(df))

----------------------------------------------------------------------------
(* Trader *)

TraderInit ==
    [in_trade |-> FALSE, trade_entry_time |-> NaN, entry_price |-> NaN,
     sl |-> NaN, tp |-> NaN, timeout |-> NaN, position |-> "None",
     balance |-> starting_balance * Point]

\* datetime.strptime(ts, "%Y-%m-%dT%H:%M:%S.%f"): milliseconds to microseconds
Strptime(ts) == ts * UsPerMs
\* datetime.strftime("%Y-%m-%dT%H:%M:%S.%f")[:-3]: the last three digits are cut
Strftime(dt) == dt \div UsPerMs

\* df["confidence"].dropna().abs() over the last `lookback` rows
ConfidenceSeries(df) ==
    LET t == TailRows(df, lookback) IN
    SelectSeq([i \in 1..Len(t) |-> t[i].confidence], IsNum)

AbsSum(cs) == SumSeq([i \in 1..Len(cs) |-> Abs(Num(cs[i]))])

\* mutant: the threshold itself opens the gate
EntryGate_AtThreshold(df) ==
    LET cs == ConfidenceSeries(df) IN
    /\ cs # <<>>
    /\ AbsSum(cs) >= entry_ratio_threshold * Len(cs)

\* Trader.check_trading lines 67-68: mean of |confidence| > entry_ratio_threshold
EntryGate(df) ==
    LET cs == ConfidenceSeries(df) IN
    /\ cs # <<>>
    /\ AbsSum(cs) > entry_ratio_threshold * Len(cs)

\* mutant: the entry block is not guarded by in_trade
RunsEntryLogic_NoGuard(t) == TRUE

\* Trader.check_trading line 65: df["confidence"] is a column, never None
RunsEntryLogic(t) == ~t.in_trade

\* Trader.check_trading lines 69-78
EnterTrade(t, tick, latest) ==
    [t EXCEPT !.in_trade = TRUE,
              !.trade_entry_time = Some(Strptime(tick.timestamp)),
              !.entry_price = Some(tick.last),
              !.sl = latest.stop_loss,
              !.tp = latest.take_profit,
              !.timeout = latest.timeout,
              !.position = IF Gt(latest.confidence, Some(0)) THEN "long" ELSE "short"]

\* Trader.check_trading line 84, in microseconds
Elapsed(t, tick) == Strptime(tick.timestamp) - Num(t.trade_entry_time)

\* mutant: the stop-loss of a short position is not checked
ExitTrade_NoShortStop(t, tick) ==
    \/ Ge(Some(Elapsed(t, tick)), IF IsNum(t.timeout)
                                  THEN Some(Num(t.timeout) * MsPerSec * UsPerMs) ELSE NaN)
    \/ t.position = "long" /\ Ge(Some(tick.last), t.tp)
    \/ t.position = "long" /\ Le(Some(tick.last), t.sl)
    \/ t.position = "short" /\ Le(Some(tick.last), t.tp)

\* Trader.check_trading lines 89-98
ExitTrade(t, tick) ==
    \/ Ge(Some(Elapsed(t, tick)), IF IsNum(t.timeout)
                                  THEN Some(Num(t.timeout) * MsPerSec * UsPerMs) ELSE NaN)
    \/ t.position = "long" /\ Ge(Some(tick.last), t.tp)
    \/ t.position = "long" /\ Le(Some(tick.last), t.sl)
    \/ t.position = "short" /\ Le(Some(tick.last), t.tp)
    \/ t.position = "short" /\ Ge(Some(tick.last), t.sl)

\* Trader.check_trading lines 101-104
Revenue(t, tick) ==
    points_to_dollars * (IF t.position = "long"
                         THEN tick.last - Num(t.entry_price)
                         ELSE Num(t.entry_price) - tick.last)

\* mutant: the round-trip fee is not charged
Profit_NoFee(t, tick) == Revenue(t, tick)

\* Trader.check_trading line 105
Profit(t, tick) == Revenue(t, tick) - FEE_PER_CONTRACT_2_WAYS * Point

\* mutant: the trader does not wait for data_gather_time rows
check_trading_NoGather(t, df, tick, len_df0) ==
    IF RunsEntryLogic(t)
    THEN IF EntryGate(df)
         THEN [trader |-> EnterTrade(t, tick, df[Len(df)]), buff |-> df,
               did |-> "enter", profit |-> NaN]
         ELSE [trader |-> t, buff |-> df, did |-> "flat", profit |-> NaN]
    ELSE [trader |-> t, buff |-> df, did |-> "hold", profit |-> NaN]

\* Trader.check_trading: the trader after the call, the buffer after the call
\* and the branch that ran
check_trading(t, df, tick, len_df0) ==
    IF len_df0 < data_gather_time
    THEN [trader |-> t, buff |-> df, did |-> "skip", profit |-> NaN]
    ELSE IF RunsEntryLogic(t)
    THEN IF EntryGate(df)
         THEN [trader |-> EnterTrade(t, tick, df[Len(df)]), buff |-> df,
               did |-> "enter", profit |-> NaN]
         ELSE [trader |-> t, buff |-> df, did |-> "flat", profit |-> NaN]
    ELSE IF ExitTrade(t, tick)
    THEN [trader |-> [t EXCEPT !.balance = @ + Profit(t, tick), !.in_trade = FALSE],
          buff |-> write_res_to_buff(df, Strftime(Num(t.trade_entry_time)),
                                     Revenue(t, tick), Profit(t, tick),
                                     Elapsed(t, tick) \div (10 * UsPerMs)),
          did |-> "exit", profit |-> Some(Profit(t, tick))]
    ELSE [trader |-> t, buff |-> df, did |-> "hold", profit |-> NaN]

----------------------------------------------------------------------------
(* CandleTracker, reduced to what the lifecycle reads: the open candle's   *)
(* start and the number of closed candles (the full tracker is below)      *)

MinuteMs == 60 * MsPerSec

\* pd.Timestamp.floor(f"{duration}min")
FloorMin(t, duration) == (t \div (duration * MinuteMs)) * (duration * MinuteMs)

\* CandleTracker.add_tick line 62
CandleStart(t, duration, offset) == FloorMin(t, duration) + offset * MsPerSec

\* CandleTracker.add_tick line 66
NeedsNewCandle(cur, start) == cur = NaN \/ Num(cur) # start

\* CandleTracker.add_tick lines 66-68: a row is appended when a candle closes
LenAfterTick(cur, n, start) == IF cur # NaN /\ Num(cur) # start THEN n + 1 ELSE n

----------------------------------------------------------------------------
(* The claimed accounting, written from the statement and not from the code: *)
(* profit = points_to_dollars x signed move - round-trip fee                 *)

ClaimedProfit(position, entry_price, exit_price) ==
    points_to_dollars * (IF position = "long" THEN exit_price - entry_price
                         ELSE entry_price - exit_price)
    - FEE_PER_CONTRACT_2_WAYS * Point

\* The log of closed trades after a check_trading call that took branch d
ClosedAfter(d, t, tick) ==
    IF d = "exit"
    THEN Append(closed, ClaimedProfit(t.position, Num(t.entry_price), tick.last))
    ELSE closed

----------------------------------------------------------------------------
(* Inputs of the lifecycle *)

\* Arguments of update_trade as make_rec lines 116-122 build them from rec_val:
\* position and num_contracts follow from the value, the levels are drawn.
RecInputs ==
    {[val |-> 4, entry |-> 100 * Point + Quarter, sl |-> 100 * Point - 2 * Quarter,
      tp |-> 100 * Point + 2 * Quarter, timeout |-> 120],
     [val |-> -4, entry |-> 100 * Point, sl |-> 100 * Point + 2 * Quarter,
      tp |-> 100 * Point - 2 * Quarter, timeout |-> 180],
     [val |-> 2, entry |-> 100 * Point - Quarter, sl |-> 100 * Point + 2 * Quarter,
      tp |-> 100 * Point - 2 * Quarter, timeout |-> 120]}

HasTick == last_tick # <<>>
Tick == last_tick[1]
NextTicks ==
    {[timestamp |-> (IF HasTick THEN Tick.timestamp ELSE 0) + d, last |-> p] :
        d \in TickDeltas, p \in TickPrices}

\* StratICT.make_rec on the 1-minute trackers: line 50 returns when no tracker
\* has data_gather_time rows; otherwise the scoring loop runs and line 89 adds
\* the (score, subindicators) tuple of get_inds to a number, which raises.
MakeRecOutcome(len_df) == IF len_df < data_gather_time THEN "invalid" ELSE "TypeError"

----------------------------------------------------------------------------
(* Actions of the lifecycle.  The calls on one tick come in the order of     *)
(* process_symbol: tick and candles, features, recommendation, log, trader.  *)

Init ==
    /\ last_tick = <<>>
    /\ cur_start = NaN
    /\ nrows = 0
    /\ buff = <<>>
    /\ rec = RecInit
    /\ trader = TraderInit
    /\ ticks = 0
    /\ phase = "idle"
    /\ checks = 0
    /\ did = "init"
    /\ closed = <<>>
    /\ frame = [stage |-> "unused"]
    /\ tracker = [stage |-> "unused"]
    /\ fed = <<>>

\* Processor.process_symbol lines 25-31: the next tick becomes buddy.last_tick
\* and is added to the 1-minute trackers (OffsetCandleManager.add_tick)
Ingest ==
    /\ ticks < MaxTicks
    /\ \E t \in NextTicks :
        LET start == CandleStart(t.timestamp, 1, 0) IN
        /\ last_tick' = <<t>>
        /\ nrows' = LenAfterTick(cur_start, nrows, start)
        /\ cur_start' = Some(start)
    /\ ticks' = ticks + 1
    /\ phase' = "ticked"
    /\ checks' = 0
    /\ did' = "ingest"
    /\ UNCHANGED <<buff, rec, trader, closed, frame, tracker, fed>>

\* Buffer.write_features_to_buff(buddy.last_tick), once per tick
WriteFeatures ==
    /\ phase = "ticked"
    /\ ~InIndex(buff, Tick.timestamp)
    /\ buff' = write_features_to_buff(buff, Tick)
    /\ phase' = "featured"
    /\ did' = "features"
    /\ UNCHANGED <<last_tick, cur_start, nrows, rec, trader, ticks, checks, closed, frame, tracker, fed>>

\* Recommendation.update_trade as called at make_rec lines 119-122
UpdateTrade ==
    /\ phase \in {"ticked", "featured"}
    /\ \E a \in RecInputs :
          rec' = update_trade(rec, Some(a.val), Direction(IsLong(a.val)), Some(a.entry),
                              Some(a.sl), Some(a.tp), Some(Tick.timestamp),
                              Some(a.timeout), Some(GetNumContracts(a.val)))
    /\ phase' = "recommended"
    /\ did' = "update_trade"
    /\ UNCHANGED <<last_tick, cur_start, nrows, buff, trader, ticks, checks, closed, frame, tracker, fed>>

\* Processor.process_symbol lines 39-56
WriteRecs ==
    /\ phase = "recommended"
    /\ buff' = write_recs_to_buff(buff, rec, RecData(rec))
    /\ phase' = "logged"
    /\ did' = "recs"
    /\ UNCHANGED <<last_tick, cur_start, nrows, rec, trader, ticks, checks, closed, frame, tracker, fed>>

\* Trader.check_trading(buddy.data_gather_time)
CheckTrading ==
    /\ phase \in {"ticked", "featured", "logged", "checked"}
    /\ checks < MaxChecks
    /\ LET r == check_trading(trader, buff, Tick, nrows) IN
       /\ trader' = r.trader
       /\ buff' = r.buff
       /\ did' = r.did
       /\ closed' = ClosedAfter(r.did, trader, Tick)
    /\ phase' = "checked"
    /\ checks' = checks + 1
    /\ UNCHANGED <<last_tick, cur_start, nrows, rec, ticks, frame, tracker, fed>>

\* Processor.process_symbol: tick, candles, make_rec, log, check_trading
ProcessSymbol ==
    /\ ticks < MaxTicks
    /\ \E t \in NextTicks :
        LET start == CandleStart(t.timestamp, 1, 0)
            n == LenAfterTick(cur_start, nrows, start)
        IN
        /\ last_tick' = <<t>>
        /\ cur_start' = Some(start)
        /\ nrows' = n
        /\ IF MakeRecOutcome(n) = "invalid"
           THEN LET r1 == [rec EXCEPT !.valid = "false"]
                    b1 == write_recs_to_buff(buff, r1, RecData(r1))
                    r == check_trading(trader, b1, t, n)
                IN /\ rec' = r1
                   /\ trader' = r.trader
                   /\ buff' = r.buff
                   /\ did' = "pass"
                   /\ closed' = ClosedAfter(r.did, trader, t)
                   /\ checks' = 1
           ELSE /\ did' = "raise"
                /\ checks' = 0
                /\ UNCHANGED <<rec, trader, buff, closed>>
    /\ ticks' = ticks + 1
    /\ phase' = "checked"
    /\ UNCHANGED <<frame, tracker, fed>>

Next ==
    \/ Ingest
    \/ WriteFeatures
    \/ UpdateTrade
    \/ WriteRecs
    \/ CheckTrading
    \/ ProcessSymbol

Spec == Init /\ [][Next]_vars

----------------------------------------------------------------------------
(* Claims on the trade lifecycle (specification Spec) *)

\* A step in which Trader.check_trading ran (alone, or inside process_symbol)
CallMade == did' \in {"skip", "flat", "enter", "hold", "exit", "pass"}

\* What a trade captures at its Flat -> InPosition transition
Captured(t) == <<t.trade_entry_time, t.entry_price, t.sl, t.tp, t.timeout, t.position>>

\* C1: check_trading never runs its entry logic while in_trade is true: the
\* captured trade_entry_time, entry_price, sl, tp, timeout and position stay
\* as they were from the entry until the trade exits, and one call makes at
\* most one transition (never an entry and an exit together).
C1_OneTransition ==
    [][ /\ (trader.in_trade => did' # "enter")
        /\ (trader.in_trade => Captured(trader') = Captured(trader))
        /\ (trader'.in_trade # trader.in_trade => CallMade)
        /\ (trader'.in_trade = trader.in_trade =>
               /\ trader'.balance = trader.balance
               /\ Captured(trader') = Captured(trader)) ]_vars

\* C1 witness: check_trading ran in position with an open entry gate and a
\* latest row that differs from the captured levels, and kept the trade.
C1_Witness ==
    /\ trader.in_trade
    /\ did = "hold"
    /\ EntryGate(buff)
    /\ buff[Len(buff)].stop_loss # trader.sl

\* C2: the balance changes only in a check_trading call that closes an open
\* trade, and then by the profit of that trade (points_to_dollars x signed
\* move - fee); so balance = starting_balance + sum of the closed profits.
C2_Balance ==
    /\ [](trader.balance = starting_balance * Point + SumSeq(closed))
    /\ [][ trader'.balance # trader.balance =>
             /\ CallMade
             /\ trader.in_trade /\ ~trader'.in_trade
             /\ trader'.balance = trader.balance
                  + ClaimedProfit(trader.position, Num(trader.entry_price),
                                  last_tick'[1].last) ]_vars

\* C2 witness: two trades have been closed, the second one at a loss
\* different from the first.
C2_Witness ==
    /\ Len(closed) = 2
    /\ closed[1] # closed[2]
    /\ did = "exit"

\* The exit conditions as the claim states them, on the tick of the call
ClaimedExit(t, tick) ==
    LET elapsed_s == (tick.timestamp * UsPerMs - Num(t.trade_entry_time))
                        \div (MsPerSec * UsPerMs)
        timed_out == IsNum(t.timeout) /\ elapsed_s >= Num(t.timeout)
        at_tp == IsNum(t.tp) /\ IF t.position = "long" THEN tick.last >= Num(t.tp)
                                 ELSE tick.last <= Num(t.tp)
        at_sl == IsNum(t.sl) /\ IF t.position = "long" THEN tick.last <= Num(t.sl)
                                 ELSE tick.last >= Num(t.sl)
    IN timed_out \/ at_tp \/ at_sl

\* C3: in position, a check_trading call closes the trade iff the elapsed
\* time has reached the timeout, or the price has reached take-profit, or
\* the price has reached stop-loss; otherwise the trade and buffer are kept.
C3_ExitIff ==
    [][ (trader.in_trade /\ CallMade) =>
            /\ ~trader'.in_trade <=> ClaimedExit(trader, last_tick'[1])
            /\ (~ClaimedExit(trader, last_tick'[1]) =>
                    trader' = trader /\ buff' = buff) ]_vars

\* C3 witness: a short trade closed by its stop-loss alone, before its timeout
\* and away from its take-profit.
C3_Witness ==
    /\ did = "exit"
    /\ trader.position = "short"
    /\ Tick.last >= Num(trader.sl)
    /\ Tick.last > Num(trader.tp)
    /\ Tick.timestamp * UsPerMs - Num(trader.trade_entry_time)
          < Num(trader.timeout) * MsPerSec * UsPerMs

RECURSIVE SumAbsConf(_, _)
SumAbsConf(df, I) ==
    IF I = {} THEN 0
    ELSE LET i == CHOOSE j \in I : TRUE
         IN Abs(Num(df[i].confidence)) + SumAbsConf(df, I \ {i})

\* The entry gate as the claim states it: the mean of |confidence| over the
\* confidences logged in the last `lookback` rows exceeds the threshold
ClaimedGate(df) ==
    LET I == {i \in 1..Len(df) : i > Len(df) - lookback /\ IsNum(df[i].confidence)}
    IN I # {} /\ SumAbsConf(df, I) > entry_ratio_threshold * Cardinality(I)

\* C4: a Flat -> InPosition transition happens only when the mean of the
\* absolute confidences logged in the last `lookback` rows is strictly above
\* entry_ratio_threshold; otherwise (mean <= threshold, or nothing logged)
\* the call leaves the trader as it was.
C4_EntryGate ==
    [][ /\ (~trader.in_trade /\ trader'.in_trade => ClaimedGate(buff'))
        /\ (~trader.in_trade /\ CallMade /\ ~ClaimedGate(buff') => trader' = trader) ]_vars

\* C4 witness: a trade was entered on a buffer longer than the window, whose
\* oldest row alone would have kept the mean at the threshold.
C4_Witness ==
    /\ did = "enter"
    /\ Len(buff) > lookback
    /\ buff[1].confidence = Some(2)

\* C5 (as claimed): at every Flat -> InPosition transition the trade's entry
\* price, stop-loss, take-profit, timeout and direction equal the entry,
\* stop_loss, take_profit, timeout and direction of the latest recommendation.
C5_CapturesRecommendation ==
    [][ (~trader.in_trade /\ trader'.in_trade) =>
            /\ trader'.entry_price = rec.entry
            /\ trader'.sl = rec.sl
            /\ trader'.tp = rec.tp
            /\ trader'.timeout = rec.timeout
            /\ trader'.position = rec.position ]_vars

----------------------------------------------------------------------------
(* Python values of the price-level and scoring functions.  A float is     *)
(* [kind |-> "float", v |-> n] with n in 1/40 point, NaN and None are      *)
(* their own kinds, a list keeps its items, and a call that raises yields  *)
(* the kind of the exception.                                              *)

F(v) == [kind |-> "float", v |-> v]
PyNaN == [kind |-> "nan"]
PyNone == [kind |-> "None"]
PyList(items) == [kind |-> "list", items |-> items]
TypeError == [kind |-> "TypeError"]

\* bool(x) of a float, NaN, None or list
Truthy(x) ==
    \/ x.kind = "nan"
    \/ x.kind = "float" /\ x.v # 0
    \/ x.kind = "list" /\ x.items # <<>>
    \/ x.kind = "tuple"

\* The element of a one-element set: { e(x) : x \in {v} } computes v once and
\* names it x in e
The(S) == CHOOSE v \in S : TRUE

Min2(a, b) == IF b < a THEN b ELSE a
Max2(a, b) == IF b > a THEN b ELSE a

RECURSIVE MinSeq(_)
MinSeq(s) == IF Len(s) = 1 THEN s[1] ELSE Min2(s[1], MinSeq(Tail(s)))
RECURSIVE MaxSeq(_)
MaxSeq(s) == IF Len(s) = 1 THEN s[1] ELSE Max2(s[1], MaxSeq(Tail(s)))

\* round(n / d) of Python 3 for d > 0: to the nearest integer, ties to even
RoundHalfEven(n, d) ==
    LET q == n \div d
        r == n - q * d
    IN IF 2 * r < d THEN q
       ELSE IF 2 * r > d THEN q + 1
       ELSE IF q % 2 = 0 THEN q ELSE q + 1

\* round(4 * x) / 4 for the price x = n / d (in 1/40 point)
RoundQuarter(n, d) == Quarter * RoundHalfEven(n, d * Quarter)

----------------------------------------------------------------------------
(* EntryMaker *)

\* EntryMaker._get_entry_price_; order_blocks is a sequence of zones,
\* fvg_zones a list of (low, high) pairs or None, atr and vwap Python values
get_entry_price(last_close, tick, direction, fvg_zones, order_blocks, atr, vwap) ==
    LET mark == tick.mark
        last == tick.last
        trade_sign == IF direction = "long" THEN 1 ELSE -1
        Surrounds(z) == z.low < last_close /\ last_close < z.high
        around == SelectSeq(order_blocks, Surrounds)
        ob_entry == IF around = <<>> THEN <<>>
                    ELSE IF direction = "long" THEN <<around[1].low + Quarter>>
                    ELSE <<around[1].high - Quarter>>
        fvg_entry == IF ~Truthy(fvg_zones) THEN <<>>
                     ELSE LET fvg == fvg_zones.items[1] IN
                          IF direction = "long" /\ fvg[1] < last_close
                          THEN <<fvg[1] + Quarter>>
                          ELSE IF direction = "short" /\ fvg[2] > last_close
                          THEN <<fvg[2] - Quarter>>
                          ELSE <<>>
        vwap_entry == IF Truthy(vwap) /\ vwap.kind = "float" /\ last # 0
                         /\ (IF direction = "long" THEN vwap.v < last ELSE vwap.v > last)
                      THEN <<vwap.v>> ELSE <<>>
        vals == <<mark, last>> \o ob_entry \o fvg_entry \o vwap_entry
        summation == SumSeq(vals)
        count == Len(vals)
    IN IF atr.kind = "None" THEN TypeError
       ELSE IF 2 * Abs(summation - count * mark) <= count * atr.v
       THEN F(RoundQuarter(summation, count))
       ELSE F(RoundQuarter(trade_sign * atr.v + 2 * mark, 2))

----------------------------------------------------------------------------
(* StopLoss *)

\* df["low"].rolling(5).min().iloc[-1] / df["high"].rolling(5).max().iloc[-1]
RollingExtreme(df, direction) ==
    IF Len(df) < 5 THEN PyNaN
    ELSE LET w == SubSeq(df, Len(df) - 4, Len(df)) IN
         IF direction = "long" THEN F(MinSeq([i \in 1..5 |-> w[i].low]))
         ELSE F(MaxSeq([i \in 1..5 |-> w[i].high]))

\* StopLoss._stop_loss_helper_, computed in half units (1/80 point); the
\* running sl is <<>> for None and <<2 * sl>> otherwise
stop_loss_helper(entry_price, direction, ob_range, liquidity_pools, fvg_zones, atr) ==
    LET long == direction = "long"
        Farther(a, b) == IF long THEN Min2(a, b) ELSE Max2(a, b)
        sl_ob == IF Truthy(ob_range)
                 THEN IF long THEN <<2 * (ob_range.low - Quarter)>>
                      ELSE <<2 * (ob_range.high + Quarter)>>
                 ELSE <<>>
        Relevant(p) == IF long THEN p.high < entry_price ELSE p.high > entry_price
        relevant == IF Truthy(liquidity_pools)
                    THEN LET r == SelectSeq(liquidity_pools.items, Relevant)
                         IN [i \in 1..Len(r) |-> r[i].high]
                    ELSE <<>>
        liq_sl == IF long THEN 2 * (MinSeq(relevant) - Quarter)
                  ELSE 2 * (MaxSeq(relevant) + Quarter)
        sl_liq == IF relevant = <<>> THEN sl_ob
                  ELSE IF sl_ob = <<>> THEN <<liq_sl>>
                  ELSE IF (IF long THEN liq_sl < sl_ob[1] ELSE liq_sl > sl_ob[1])
                  THEN <<liq_sl>> ELSE sl_ob
        sl_fvg == IF sl_liq = <<>> /\ Truthy(fvg_zones)
                  THEN LET fvg == fvg_zones.items[1] IN
                       IF long THEN <<2 * (fvg[1] - Quarter)>> ELSE <<2 * (fvg[2] + Quarter)>>
                  ELSE sl_liq
        sign == IF long THEN 1 ELSE -1
        sl_atr == IF Truthy(atr)
                  THEN LET fallback == 2 * entry_price - sign * atr.v
                           s1 == IF sl_fvg = <<>> THEN fallback ELSE Farther(sl_fvg[1], fallback)
                       IN <<Farther(s1, 2 * entry_price - sign * 4 * atr.v)>>
                  ELSE sl_fvg
    IN IF sl_atr = <<>> THEN TypeError ELSE F(RoundQuarter(sl_atr[1], 2))

\* StopLoss._get_stop_loss_: min(structure_sl, sl) keeps its first argument
\* unless the second is smaller, so a NaN structure stop is what comes back
get_stop_loss(df, price, direction, ob_range, fvg_zones, atr_val, liq_pools) ==
    LET structure == RollingExtreme(df, direction)
        sl == stop_loss_helper(price, direction, ob_range, liq_pools, fvg_zones, atr_val)
    IN IF sl.kind # "float" THEN sl
       ELSE IF structure.kind = "nan" THEN PyNaN
       ELSE IF direction = "long" THEN F(Min2(structure.v - Quarter, sl.v))
       ELSE F(Max2(structure.v + Quarter, sl.v))

----------------------------------------------------------------------------
(* TakeProfit *)

\* The first item of a sequence that passes a test, as a for loop with break
FirstWhere(s, Test(_)) == LET m == SelectSeq(s, Test) IN IF m = <<>> THEN <<>> ELSE <<m[1]>>

\* TakeProfit._get_take_profit_, computed in half units (1/80 point)
get_take_profit(entry_price, direction, ob_range, fvg_targets, liq_pools, atr, vwap) ==
    LET long == direction = "long"
        e2 == 2 * entry_price
        r == IF Truthy(ob_range)
             THEN Abs(entry_price - (IF long THEN ob_range.low ELSE ob_range.high))
             ELSE 5 * Point
        tp0 == IF long THEN e2 + 3 * r ELSE e2 - 3 * r
        FvgHit(fvg) == IF long THEN fvg[1] > entry_price /\ 2 * fvg[1] < tp0
                       ELSE fvg[2] < entry_price /\ 2 * fvg[2] > tp0
        fvg_hit == FirstWhere(fvg_targets.items, FvgHit)
        tp1 == IF fvg_hit = <<>> THEN tp0
               ELSE IF long THEN 2 * fvg_hit[1][1] ELSE 2 * fvg_hit[1][2]
        PoolHit(pool) == IF long THEN pool.high > entry_price /\ 2 * pool.high < tp1
                         ELSE pool.low < entry_price /\ 2 * pool.low > tp1
        pool_hit == FirstWhere(liq_pools.items, PoolHit)
        tp2 == IF pool_hit = <<>> THEN tp1
               ELSE IF long THEN 2 * (pool_hit[1].high - Quarter)
               ELSE 2 * (pool_hit[1].low + Quarter)
        tp3 == IF Truthy(vwap) /\ vwap.kind = "float"
               THEN IF long THEN Min2(tp2, 2 * vwap.v) ELSE Max2(tp2, 2 * vwap.v)
               ELSE tp2
        tp4 == IF long /\ tp3 < e2 THEN e2 + 6 * atr.v
               ELSE IF ~long /\ tp3 > e2 THEN e2 - 6 * atr.v
               ELSE tp3
        tp5 == IF long THEN Min2(tp4, e2 + 8 * atr.v) ELSE Max2(tp4, e2 - 8 * atr.v)
    IN IF fvg_targets.kind # "list" \/ liq_pools.kind # "list" \/ atr.kind # "float"
       THEN TypeError
       ELSE F(RoundQuarter(tp5, 2))

----------------------------------------------------------------------------
(* InnerCircleTradingUtils.get_atr, StratICT.get_timeout, merge_zones,      *)
(* OrderBlocks._get_nearest_ob_range_                                       *)

\* True range of row i: the previous close of the first row is NaN and
\* max() keeps its first argument against a NaN
TrueRange(df, i) ==
    IF i = 1 THEN df[i].high - df[i].low
    ELSE MaxSeq(<<df[i].high - df[i].low, Abs(df[i].high - df[i - 1].close),
                  Abs(df[i].low - df[i - 1].close)>>)

AtrDefault == 10 * Point
TenthPoint == Point \div 10

\* get_atr: the 5-row mean of the true range rounded to one decimal, 10 when
\* there are fewer than 5 rows
get_atr(df) ==
    IF Len(df) < 5 THEN F(AtrDefault)
    ELSE F(TenthPoint * RoundHalfEven(
             SumSeq([i \in 1..5 |-> TrueRange(df, Len(df) - 5 + i)]), 5 * TenthPoint))

get_timeout(atr_val) ==
    IF atr_val.kind = "None" THEN 300
    ELSE IF atr_val.v > 50 * Point THEN 120
    ELSE IF atr_val.v > 20 * Point THEN 180
    ELSE 300

\* merge_zones on a list of dicts (order blocks): one envelope without type
merge_zones_dicts(zones) ==
    IF zones = <<>> THEN PyList(<<>>)
    ELSE PyList(<<[low |-> MinSeq([i \in 1..Len(zones) |-> zones[i].low]),
                   high |-> MaxSeq([i \in 1..Len(zones) |-> zones[i].high])]>>)

\* merge_zones on a flat list of numbers (liquidity pool levels): the items
\* at even positions are the lows, those at odd positions the highs
merge_zones_numbers(zones) ==
    LET lows == SelectSeq([i \in 1..Len(zones) |-> IF i % 2 = 1 THEN <<zones[i]>> ELSE <<>>],
                          IsNum)
        highs == SelectSeq([i \in 1..Len(zones) |-> IF i % 2 = 0 THEN <<zones[i]>> ELSE <<>>],
                           IsNum)
    IN IF zones = <<>> \/ lows = <<>> \/ highs = <<>> THEN PyList(<<>>)
       ELSE PyList(<<[low |-> MinSeq([i \in 1..Len(lows) |-> lows[i][1]]),
                      high |-> MaxSeq([i \in 1..Len(highs) |-> highs[i][1]])]>>)

\* merge_zones on a list of (low, high) tuples (FVGs): neither isinstance
\* test matches and the function falls off its end
merge_zones_tuples(zones) == IF zones = <<>> THEN PyList(<<>>) ELSE PyNone

\* _get_nearest_ob_range_(order_blocks, last_price, direction): the blocks
\* whose 'type' equals `direction`, nearest midpoint first (list.sort is stable)
get_nearest_ob_range(order_blocks, last_price, direction) ==
    LET Match(ob) == "type" \in DOMAIN ob /\ ob.type = direction
        candidates == SelectSeq(order_blocks, Match)
        Dist(ob) == Abs(ob.high + ob.low - 2 * last_price)
        best == CHOOSE i \in 1..Len(candidates) :
                   \A j \in 1..Len(candidates) :
                      Dist(candidates[i]) < Dist(candidates[j])
                      \/ (Dist(candidates[i]) = Dist(candidates[j]) /\ i <= j)
    IN IF candidates = <<>> THEN PyNone
       ELSE [kind |-> "tuple", high |-> candidates[best].high, low |-> candidates[best].low]

----------------------------------------------------------------------------
(* Scores *)

PyInt(n) == [kind |-> "int", v |-> n]

Clamp10(n) == Max2(-10, Min2(10, n))

CountWhere(s, Test(_)) == Len(SelectSeq(s, Test))

\* OrderBlocks._score_order_blocks_
score_order_blocks(price, order_blocks) ==
    LET Bullish(ob) == ob.low <= price /\ price <= ob.high /\ ob.type = "bullish"
        Bearish(ob) == ob.low <= price /\ price <= ob.high /\ ob.type = "bearish"
    IN PyInt(Clamp10((CountWhere(order_blocks, Bearish) - CountWhere(order_blocks, Bullish)) * 3))

\* Fvg._score_fvg_
score_fvg(price, fvg_zones, direction) ==
    LET Inside(z) == z[1] <= price /\ price <= z[2]
        score == CountWhere(fvg_zones, Inside) * (IF direction = "long" THEN 2 ELSE -2)
    IN PyInt(Clamp10(IF direction = "short" THEN score ELSE -score))

\* LiquiditySweep._score_liquidity_sweep_
score_liquidity_sweep(df, direction, pools) ==
    LET last_price == df[Len(df)].close
        prior_price == IF Len(df) > 1 THEN df[Len(df) - 1].close ELSE last_price
        Swept(level) == IF direction = "long" THEN prior_price > level /\ last_price < level
                        ELSE prior_price < level /\ last_price > level
        swept == CountWhere(pools, Swept)
    IN IF pools = <<>> THEN PyInt(0)
       ELSE IF direction = "short" THEN PyInt(Min2(10, swept * 3))
       ELSE PyInt(Max2(-10, -swept * 3))

\* InnerCircleTradingUtils.score_pressure_bias on an int
score_pressure_bias(pressure) == PyInt(Max2(-10, Min2(10, pressure)))

\* The least |delta| (in 1/40 point) at which round(10 * tanh(0.4 * delta))
\* reaches k = 1..10; the bounds between two values are irrational, so every
\* delta counted in 1/40 point falls strictly inside a band
TanhBands == <<6, 16, 26, 37, 49, 62, 78, 98, 126, 184>>

\* InnerCircleTradingUtils.score_fv_dislocation: round(-10 * tanh(0.4 * delta))
score_fv_dislocation(fv_delta) ==
    IF fv_delta.kind = "None" THEN PyInt(0)
    ELSE LET k == Cardinality({i \in 1..Len(TanhBands) : TanhBands[i] <= Abs(fv_delta.v)})
         IN PyInt(IF fv_delta.v > 0 THEN -k ELSE k)

\* candle.get(name, default) or default
GetOr(x, default) == IF ~Truthy(x) THEN F(default) ELSE x

\* Comparison of two floats, false as soon as one is NaN
Lt(a, b) == a.kind = "float" /\ b.kind = "float" /\ a.v < b.v

\* ComputeIndicators._get_inds_: the pair (score, subindicators).  RSI is
\* counted in units, the stochastic RSI in hundredths.
get_inds(candle) ==
    LET rsi == GetOr(candle.rsi_14, 50)
        stoch == GetOr(candle.stoch_rsi, 50)
        momentum == GetOr(candle.momentum_9, 0)
        Signal(up, down) == IF up THEN 1 ELSE IF down THEN -1 ELSE 0
        sub == [rsi |-> Signal(Lt(rsi, F(30)), Lt(F(70), rsi)),
                stoch_rsi |-> Signal(Lt(stoch, F(20)), Lt(F(80), stoch)),
                momentum |-> Signal(Lt(F(0), momentum), Lt(momentum, F(0))),
                ema_cross |-> Signal(Lt(candle.ema_20, candle.ema_9),
                                     Lt(candle.ema_9, candle.ema_20)),
                vwap_position |-> Signal(Lt(candle.VWAP, F(candle.close)),
                                         Lt(F(candle.close), candle.VWAP))]
        score == 2 * (sub.rsi + sub.stoch_rsi + sub.momentum + sub.ema_cross
                      + sub.vwap_position)
    IN [kind |-> "tuple", score |-> Clamp10(score), subindicators |-> sub]

\* StratICT.score_volume_spike
score_volume_spike(df) ==
    LET n == Len(df)
        current_vol == df[n].volume
        sum3 == df[n - 3].volume + df[n - 2].volume + df[n - 1].volume
    IN IF n < 4 \/ sum3 = 0 THEN 0
       ELSE IF 3 * current_vol >= 2 * sum3 THEN 10
       ELSE Max2(0, Min2(10, RoundHalfEven(30 * current_vol - 10 * sum3, sum3)))

HourMs == 60 * MinuteMs
DayMs == 24 * HourMs

\* SessionTimes._ict_scalping_confidence_: the naive timestamp is taken as
\* UTC and read in US/Eastern (daylight time, UTC-4); 0 ms is a midnight UTC
ict_scalping_confidence(ts) ==
    LET t == (ts + DayMs - 4 * HourMs) % DayMs IN
    IF 9 * HourMs + 30 * MinuteMs <= t /\ t <= 10 * HourMs + 30 * MinuteMs THEN 10
    ELSE IF 10 * HourMs + 30 * MinuteMs < t /\ t <= 11 * HourMs + 30 * MinuteMs THEN 7
    ELSE IF 11 * HourMs + 30 * MinuteMs < t /\ t <= 14 * HourMs THEN 4
    ELSE IF 14 * HourMs < t /\ t <= 16 * HourMs + 15 * MinuteMs THEN 6
    ELSE 2

\* abs(new) > abs(old) of make_rec lines 76-77
Stronger(old, new) == IF Abs(new.v) > Abs(old.v) THEN new ELSE old

\* sum(c for c in components if c is not None): 0 + c1 + c2 + ..., which
\* raises as soon as an item is not a number
PySum(components) ==
    IF \E i \in 1..Len(components) : components[i].kind \notin {"int", "half"}
    THEN TypeError
    ELSE [kind |-> "half",
          v |-> SumSeq([i \in 1..Len(components) |->
                          IF components[i].kind = "int" THEN 2 * components[i].v
                          ELSE components[i].v])]

----------------------------------------------------------------------------
(* Inputs of StratICT.make_rec (specification SpecRec): the closed candles  *)
(* of tracker 0 with the indicator columns of the last row, the tick, and   *)
(* the zones that the detectors returned.  Prices are multiples of a quarter    *)
(* point, so that round(mark - last, 2) is mark - last.                     *)

Px == 100 * Point

BarFlat == [open |-> Px, high |-> Px + Quarter, low |-> Px - Quarter, close |-> Px,
            volume |-> 10]
BarUp == [open |-> Px, high |-> Px + 5 * Quarter, low |-> Px - Quarter,
          close |-> Px + 2 * Quarter, volume |-> 30]
Bars == {BarFlat, BarUp}

\* Closed candles of a tracker: two rows (data_gather_time), five (a full
\* rolling window) or ten (the first indicator columns are computed)
Histories ==
    {<<a, b>> : a \in Bars, b \in Bars}
    \cup {<<BarFlat, BarFlat, a, b, c>> : a \in Bars, b \in Bars, c \in Bars}
    \cup {[i \in 1..10 |-> a] : a \in Bars}

\* ta.vwap: sum of typical price x volume over sum of volume.  The bars
\* drawn make both divisions exact.
ta_vwap(df) ==
    LET Typical(c) == (c.high + c.low + c.close) \div 3
    IN SumSeq([i \in 1..Len(df) |-> Typical(df[i]) * df[i].volume])
          \div SumSeq([i \in 1..Len(df) |-> df[i].volume])

\* compute_indicators, the columns of the last row that _get_inds_ and
\* make_rec read: nothing up to 9 rows; momentum_9, ema_9 (seeded by the mean
\* of the first nine closes, alpha = 0.2) and VWAP from 10 rows; rsi_14,
\* stoch_rsi and ema_20 need more than 14 and 20 rows
compute_indicators(df) ==
    LET n == Len(df) IN
    IF n <= 9
    THEN [rsi_14 |-> PyNaN, stoch_rsi |-> PyNaN, momentum_9 |-> PyNaN, ema_9 |-> PyNaN,
          ema_20 |-> PyNaN, VWAP |-> PyNaN]
    ELSE [rsi_14 |-> PyNaN, stoch_rsi |-> PyNaN,
          momentum_9 |-> F(df[n].close - df[n - 9].close),
          ema_9 |-> F((9 * df[n].close + 4 * SumSeq([i \in 1..9 |-> df[i].close])) \div 45),
          ema_20 |-> PyNaN, VWAP |-> F(ta_vwap(df))]

\* 14:00 UTC, which is 10:00 in US/Eastern
RecTicks ==
    {[timestamp |-> 14 * HourMs, last |-> Px, mark |-> m, pressure |-> p,
      fair_value_delta |-> F(m - Px)] :
        m \in {Px, Px + 2 * Quarter}, p \in {-3, 2}}

ObsInputs ==
    {<<>>,
     <<[type |-> "bullish", low |-> Px - 4 * Quarter, high |-> Px + Quarter]>>,
     <<[type |-> "bullish", low |-> Px - 4 * Quarter, high |-> Px + Quarter],
       [type |-> "bearish", low |-> Px - Quarter, high |-> Px + 6 * Quarter]>>}

FvgInputs ==
    {[short |-> a, long |-> b] :
        a \in {<<>>, << <<Px - 3 * Quarter, Px - Quarter>> >>},
        b \in {<<>>, << <<Px + Quarter, Px + 3 * Quarter>> >>}}

LiqInputs ==
    {[short |-> a, long |-> b] :
        a \in {<<>>, <<Px + 2 * Quarter, Px + 4 * Quarter>>},
        b \in {<<>>, <<Px - 2 * Quarter>>, <<Px - 2 * Quarter, Px - 4 * Quarter>>}}

\* Per-variant scores as line 90 would collect them
ScoreLists == {<<4>>, <<0>>, <<-4>>, <<2, 3>>, <<-3, -4>>}

FrameInputs ==
    {[stage |-> "drawn", df |-> h, inds |-> compute_indicators(h), obs |-> o,
      fvgs |-> f, liq |-> l, components |-> <<>>, score |-> PyNone,
      rec_val |-> PyNone] :
        h \in Histories, o \in ObsInputs, f \in FvgInputs, l \in LiqInputs}

----------------------------------------------------------------------------
(* Actions of SpecRec.  make_rec is the scoring loop followed by the        *)
(* resolution of direction and levels; each part is applied to the frame.   *)

InitRec ==
    /\ last_tick \in {<<t>> : t \in RecTicks}
    /\ frame \in FrameInputs
    /\ cur_start = NaN
    /\ nrows = 0
    /\ buff = <<>>
    /\ rec = RecInit
    /\ trader = TraderInit
    /\ ticks = 0
    /\ phase = "idle"
    /\ checks = 0
    /\ did = "init"
    /\ closed = <<>>
    /\ tracker = [stage |-> "unused"]
    /\ fed = <<>>

\* make_rec lines 59-90 for one offset variant
ScoreComponents(f, tick) ==
    LET df == f.df
        price == tick.last
        candle == [rsi_14 |-> f.inds.rsi_14, stoch_rsi |-> f.inds.stoch_rsi,
                   momentum_9 |-> f.inds.momentum_9, ema_9 |-> f.inds.ema_9,
                   ema_20 |-> f.inds.ema_20, VWAP |-> f.inds.VWAP,
                   close |-> df[Len(df)].close]
        sweep_score == Stronger(Stronger(PyInt(0),
                                         score_liquidity_sweep(df, "short", f.liq.short)),
                                score_liquidity_sweep(df, "long", f.liq.long))
        fvg_score == Stronger(Stronger(PyInt(0), score_fvg(price, f.fvgs.short, "short")),
                              score_fvg(price, f.fvgs.long, "long"))
        session_volume == [kind |-> "half",
                           v |-> ict_scalping_confidence(tick.timestamp)
                                    + score_volume_spike(df)]
    IN <<score_order_blocks(price, f.obs), sweep_score, fvg_score,
         score_pressure_bias(tick.pressure), score_fv_dislocation(tick.fair_value_delta),
         get_inds(candle), session_volume>>

\* make_rec line 89: int(round(sum(...) / len(components), 0))
VariantScore(components) ==
    LET total == PySum(components) IN
    IF total.kind = "TypeError" THEN TypeError
    ELSE PyInt(RoundHalfEven(total.v, 2 * Len(components)))

ScoreVariant ==
    /\ frame.stage = "drawn"
    /\ \E c \in {ScoreComponents(frame, Tick)} :
       frame' = [frame EXCEPT !.stage = "scored", !.components = c,
                              !.score = VariantScore(c)]
    /\ UNCHANGED <<last_tick, cur_start, nrows, buff, rec, trader, ticks, phase, checks,
                   did, closed, tracker, fed>>

\* A Python float as a cell of the recommendation
Cell(x) == IF x.kind = "float" THEN Some(x.v) ELSE NaN

\* make_rec lines 92-122 on the collected scores: the recommendation after
\* the call, and whether update_trade was reached
ResolveLevels(r, f, tick, scores) ==
    LET rec_val == RoundHalfEven(SumSeq(scores), Len(scores))
        is_long == IsLong(rec_val)
        r0 == IF is_long = "None" THEN [r EXCEPT !.valid = "false"] ELSE r
        direction == Direction(is_long)
        df0 == f.df
        vwap == f.inds.VWAP
        Raised == [rec |-> r0, stage |-> "raised", rec_val |-> rec_val]
    IN The({ The({ The({
         IF entry.kind = "TypeError" THEN Raised
         ELSE The({ The({
                IF sl.kind = "TypeError" \/ tp.kind = "TypeError" THEN Raised
                ELSE [rec |-> update_trade(r0, Some(rec_val), direction, Cell(entry),
                                           Cell(sl), Cell(tp), Some(tick.timestamp),
                                           Some(get_timeout(z.atr_val)),
                                           Some(GetNumContracts(rec_val))),
                      stage |-> "resolved", rec_val |-> rec_val]
                : tp \in {get_take_profit(entry.v, direction, ob_range, z.fvg_zones,
                                          z.liq_pools, z.atr_val, vwap)} })
                : sl \in {get_stop_loss(df0, entry.v, direction, ob_range, z.fvg_zones,
                                        z.atr_val, z.liq_pools)} })
         : entry \in {get_entry_price(df0[Len(df0)].close, tick, direction, z.fvg_zones,
                                      z.merged_obs.items, z.atr_val, vwap)} })
         : ob_range \in {get_nearest_ob_range(z.merged_obs.items, tick.last, direction)} })
         : z \in {[merged_obs |-> merge_zones_dicts(f.obs),
                   fvg_zones |-> merge_zones_tuples(f.fvgs[direction]),
                   liq_pools |-> merge_zones_numbers(f.liq[direction]),
                   atr_val |-> get_atr(df0)]} })

Resolve ==
    /\ frame.stage = "drawn"
    /\ \E scores \in ScoreLists :
       \E out \in {ResolveLevels(rec, frame, Tick, scores)} :
          /\ rec' = out.rec
          /\ frame' = [frame EXCEPT !.stage = out.stage, !.rec_val = PyInt(out.rec_val)]
    /\ UNCHANGED <<last_tick, cur_start, nrows, buff, trader, ticks, phase, checks,
                   did, closed, tracker, fed>>

NextRec ==
    \/ ScoreVariant
    \/ Resolve

SpecRec == InitRec /\ [][NextRec]_vars

----------------------------------------------------------------------------
(* Claims on the recommendation (specification SpecRec) *)

IsScore(x) == x.kind = "int" /\ x.v >= -10 /\ x.v <= 10

\* C7 (as claimed): the order-block, liquidity-sweep, FVG, pressure,
\* dislocation and indicator scores, the per-variant composite score and the
\* overall recommendation value are integers in [-10, 10].
C7_ScoresInRange ==
    /\ frame.stage = "scored" =>
          /\ \A i \in 1..6 : IsScore(frame.components[i])
          /\ IsScore(frame.score)
    /\ frame.stage = "resolved" => IsScore(frame.rec_val)

----------------------------------------------------------------------------
(* CandleTracker (specification SpecCandle): one tracker of some duration   *)
(* and offset, fed with ticks whose time never goes back.  `fed` records    *)
(* each tick with the time_start of the candle it was folded into.          *)

MaxFed == 4                        \* ticks given to the tracker

Durations == {1, 2}                \* minutes, from Setup.candle_durations
Offsets == {0, 10}                 \* seconds, from OffsetCandleManager.offsets
CandleDeltas == {5 * MsPerSec, 50 * MsPerSec}
TickVolumes == {990, 1000, 1050}   \* cumulative volume reported by the feed
CandlePrices == {Px, Px + 2 * Quarter}

\* mutant: the delta keeps its sign
VolumeDelta_Signed(last_volume, tick_volume) ==
    IF last_volume = NaN THEN 0 ELSE tick_volume - Num(last_volume)

\* CandleTracker.add_tick lines 54-57
VolumeDelta(last_volume, tick_volume) ==
    IF last_volume = NaN THEN 0 ELSE Max2(tick_volume - Num(last_volume), 0)

\* self.df.loc[key] = row: the row of that key is replaced, or one is appended
DfLocSet(df, row) ==
    IF \E i \in 1..Len(df) : df[i].time_start = row.time_start
    THEN [i \in 1..Len(df) |-> IF df[i].time_start = row.time_start THEN row ELSE df[i]]
    ELSE Append(df, row)

\* CandleTracker.add_tick; compute_indicators and add_indicators write the
\* indicator columns only, which the candle rows here do not carry
add_tick(t, tick) ==
    LET volume_delta == VolumeDelta(t.last_volume, tick.volume)
        candle_start == CandleStart(tick.timestamp, t.duration, t.offset)
        candle_end == candle_start + t.duration * MinuteMs
        cur == t.current
    IN IF NeedsNewCandle(IF cur = <<>> THEN NaN ELSE Some(cur[1].time_start), candle_start)
       THEN [t EXCEPT !.last_volume = Some(tick.volume),
                      !.df = IF cur = <<>> THEN @ ELSE DfLocSet(@, cur[1]),
                      !.current = <<[time_start |-> candle_start, time_end |-> candle_end,
                                     open |-> tick.last, close |-> tick.last,
                                     high |-> tick.last, low |-> tick.last,
                                     volume |-> volume_delta]>>]
       ELSE [t EXCEPT !.last_volume = Some(tick.volume),
                      !.current = <<[cur[1] EXCEPT !.close = tick.last,
                                                   !.high = Max2(@, tick.last),
                                                   !.low = Min2(@, tick.last),
                                                   !.volume = @ + volume_delta]>>]

InitCandle ==
    /\ tracker \in {[stage |-> "live", duration |-> d, offset |-> o, current |-> <<>>,
                     last_volume |-> NaN, df |-> <<>>] :
                       d \in Durations, o \in Offsets}
    /\ fed = <<>>
    /\ frame = [stage |-> "unused"]
    /\ last_tick = <<>>
    /\ cur_start = NaN
    /\ nrows = 0
    /\ buff = <<>>
    /\ rec = RecInit
    /\ trader = TraderInit
    /\ ticks = 0
    /\ phase = "idle"
    /\ checks = 0
    /\ did = "init"
    /\ closed = <<>>

\* CandleTracker.add_tick(tick) on the next tick of the feed
AddTick ==
    /\ Len(fed) < MaxFed
    /\ \E d \in CandleDeltas, p \in CandlePrices, v \in TickVolumes :
          LET tick == [timestamp |-> (IF fed = <<>> THEN 0 ELSE fed[Len(fed)].timestamp) + d,
                       last |-> p, volume |-> v]
              after == add_tick(tracker, tick)
          IN /\ tracker' = after
             /\ fed' = Append(fed, [timestamp |-> tick.timestamp, volume |-> v,
                                    start |-> after.current[1].time_start])
    /\ UNCHANGED <<last_tick, cur_start, nrows, buff, rec, trader, ticks, phase, checks,
                   did, closed, frame>>

NextCandle == AddTick

SpecCandle == InitCandle /\ [][NextCandle]_vars

----------------------------------------------------------------------------
(* Claims on the candle tracker (specification SpecCandle) *)

\* The open candle and the closed ones
Candles == {tracker.df[i] : i \in 1..Len(tracker.df)}
               \cup {tracker.current[i] : i \in 1..Len(tracker.current)}

\* The volume of a candle as the claim states it: the sum over its ticks of
\* max(cumulative volume - previous tick's cumulative volume, 0), the first
\* tick ever seen counting 0
RECURSIVE ClaimedVolume(_, _)
ClaimedVolume(start, n) ==
    IF n = 0 THEN 0
    ELSE ClaimedVolume(start, n - 1)
         + (IF fed[n].start # start \/ n = 1 THEN 0
            ELSE IF fed[n].volume > fed[n - 1].volume
            THEN fed[n].volume - fed[n - 1].volume ELSE 0)

\* C9: every candle's volume is the sum, over the ticks folded into it, of
\* max(volume - previous volume, 0) with the first tick counting 0; so it is
\* never negative, and the cumulative volumes 1000, 1000, 1050 inside one
\* window give a candle volume of 50.
C9_CandleVolume ==
    tracker.stage = "live" =>
        /\ \A c \in Candles : c.volume = ClaimedVolume(c.time_start, Len(fed))
        /\ \A c \in Candles : c.volume >= 0
        /\ ( /\ Len(fed) = 3
             /\ [i \in 1..3 |-> fed[i].volume] = <<1000, 1000, 1050>>
             /\ fed[1].start = fed[3].start )
           => tracker.current[1].volume = 50

\* C9 witness: a closed candle took a tick whose cumulative volume went back
\* and a later tick that raised it, and counts the rise only.
C9_Witness ==
    /\ tracker.stage = "live"
    /\ Len(tracker.df) = 1
    /\ \E i \in 2..Len(fed) - 1 :
          /\ fed[i].start = tracker.df[1].time_start
          /\ fed[i + 1].start = tracker.df[1].time_start
          /\ fed[i].volume < fed[i - 1].volume
          /\ tracker.df[1].volume = fed[i + 1].volume - fed[i].volume
          /\ tracker.df[1].volume > 0

\* C10 (as claimed): the tick that opened or updated a candle lies inside
\* that candle's window: time_start <= tick time < time_end, where
\* time_end = time_start + duration, for every duration and offset.
C10_TickInsideWindow ==
    (tracker.stage = "live" /\ fed # <<>>) =>
        LET c == tracker.current[1]
            t == fed[Len(fed)].timestamp
        IN /\ c.time_end = c.time_start + tracker.duration * MinuteMs
           /\ c.time_start <= t
           /\ t < c.time_end

\* The history keys are unique and chronological
KeysIncrease(df) == \A i \in 1..Len(df) - 1 : df[i].time_start < df[i + 1].time_start

\* The rows of the history before a step are the first rows after it
RowsFrozen == /\ Len(tracker'.df) >= Len(tracker.df)
              /\ \A i \in 1..Len(tracker.df) : tracker'.df[i] = tracker.df[i]

\* C11 (as claimed): for ticks with non-decreasing timestamps the history
\* has unique time_start keys in strictly increasing order; it gains a row
\* only when a tick falls outside the open candle's window [time_start,
\* time_end), the row being the candle just closed; and a row never changes
\* after it has been appended.
C11_History ==
    [][ tracker.stage = "live" =>
          /\ KeysIncrease(tracker'.df)
          /\ RowsFrozen
          /\ Len(tracker'.df) > Len(tracker.df) =>
                LET c == tracker.current[1]
                    t == fed'[Len(fed')].timestamp
                IN /\ tracker'.df = Append(tracker.df, c)
                   /\ ~(c.time_start <= t /\ t < c.time_end) ]_vars

----------------------------------------------------------------------------
(* OrderBlocks._detect_order_blocks_ (specification SpecBlocks): a candle   *)
(* history that grows by one closed candle at a time, the blocks that       *)
(* detection returns on it and the zone that merge_zones makes of them.     *)

MaxCandles == 5                    \* closed candles in the history
ob_lookback == 4                   \* `lookback` of detection (parameter, default 20)

\* A red candle, a green one that breaks above it, a red one that breaks
\* below both, and a green one that closes above all of them
BarRed == [open |-> Px + 2 * Quarter, high |-> Px + 3 * Quarter, low |-> Px - Quarter,
           close |-> Px]
BarBreakUp == [open |-> Px, high |-> Px + 5 * Quarter, low |-> Px - Quarter,
               close |-> Px + 4 * Quarter]
BarBreakDown == [open |-> Px + 4 * Quarter, high |-> Px + 4 * Quarter,
                 low |-> Px - 3 * Quarter, close |-> Px - 2 * Quarter]
BarSurge == [open |-> Px, high |-> Px + 7 * Quarter, low |-> Px,
             close |-> Px + 6 * Quarter]
BlockBars == {BarRed, BarBreakUp, BarBreakDown, BarSurge}

\* Lines 51-60: the kind of block that the pair (prev, curr) forms, if any
ObType(prev, curr) ==
    IF prev.close < prev.open /\ curr.close > curr.open /\ curr.close > prev.high
    THEN "bullish"
    ELSE IF prev.close > prev.open /\ curr.close < curr.open /\ curr.close < prev.low
    THEN "bearish"
    ELSE "None"

\* mutant: only the last candle of the history can invalidate a block
ObViolated_LastOnly(df, ob) ==
    /\ ob.index + 1 < Len(df)
    /\ \/ ob.type = "bullish" /\ df[Len(df)].close < ob.low
       \/ ob.type = "bearish" /\ df[Len(df)].close > ob.high

\* Lines 68-75: a candle after the pair closed beyond the block.  ob.index is
\* the 0-based position of the second candle of the pair.
ObViolated(df, ob) ==
    \E j \in ob.index + 2..Len(df) :
        \/ ob.type = "bullish" /\ df[j].close < ob.low
        \/ ob.type = "bearish" /\ df[j].close > ob.high

\* The block of the pair that ends i rows before the end (i = 1: the last
\* two rows); `timestamp` is left out, `index` identifies the pair
ObAt(df, i) ==
    LET prev == df[Len(df) - i]
        curr == df[Len(df) - i + 1]
    IN [type |-> ObType(prev, curr), index |-> Len(df) - i,
        high |-> prev.high, low |-> prev.low]

\* OrderBlocks._detect_order_blocks_(df, lookback): most recent pair first
detect_order_blocks(df, lb) ==
    LET m == Min2(Len(df), lb) - 1
        Kept(ob) == ob.type # "None" /\ ~ObViolated(df, ob)
    IN IF m < 1 THEN <<>> ELSE SelectSeq([i \in 1..m |-> ObAt(df, i)], Kept)

InitBlocks ==
    /\ frame = [stage |-> "history", df |-> <<>>, obs |-> <<>>,
                merged |-> merge_zones_dicts(<<>>)]
    /\ tracker = [stage |-> "unused"]
    /\ fed = <<>>
    /\ last_tick = <<>>
    /\ cur_start = NaN
    /\ nrows = 0
    /\ buff = <<>>
    /\ rec = RecInit
    /\ trader = TraderInit
    /\ ticks = 0
    /\ phase = "idle"
    /\ checks = 0
    /\ did = "init"
    /\ closed = <<>>

\* A candle closes; detection runs on the longer history and the blocks
\* are merged (make_rec lines 63 and 99)
DetectOnAppend ==
    /\ Len(frame.df) < MaxCandles
    /\ \E c \in BlockBars :
       \E df \in {Append(frame.df, c)} :
       \E obs \in {detect_order_blocks(df, ob_lookback)} :
          frame' = [frame EXCEPT !.df = df, !.obs = obs,
                                 !.merged = merge_zones_dicts(obs)]
    /\ UNCHANGED <<last_tick, cur_start, nrows, buff, rec, trader, ticks, phase, checks,
                   did, closed, tracker, fed>>

NextBlocks == DetectOnAppend

SpecBlocks == InitBlocks /\ [][NextBlocks]_vars

\* The pairs of a result, by the position of their second candle
ObIndexes(obs) == {obs[k].index : k \in 1..Len(obs)}

\* C12: no returned order block has a candle after its engulfing pair that
\* closes below its low (bullish) or above its high (bearish); and as candles
\* are appended, a pair of the history whose block is absent from the result
\* is absent from every later result.
C12_Invalidation ==
    /\ [](frame.stage = "history" =>
            \A k \in 1..Len(frame.obs) :
               LET ob == frame.obs[k] IN
               \A j \in ob.index + 2..Len(frame.df) :
                  /\ ob.type = "bullish" => frame.df[j].close >= ob.low
                  /\ ob.type = "bearish" => frame.df[j].close <= ob.high)
    /\ [][ frame.stage = "history" =>
             \A x \in ObIndexes(frame'.obs) :
                x < Len(frame.df) => x \in ObIndexes(frame.obs) ]_vars

\* C12 witness: the last candle closed below a bullish block that the step
\* before had returned; the block is gone and the block of the last pair is
\* returned.
C12_Witness ==
    /\ frame.stage = "history"
    /\ Len(frame.df) >= 3
    /\ LET n == Len(frame.df) IN
       /\ ObType(frame.df[n - 2], frame.df[n - 1]) = "bullish"
       /\ frame.df[n].close < frame.df[n - 2].low
       /\ n - 2 \notin ObIndexes(frame.obs)
       /\ n - 1 \in ObIndexes(frame.obs)

\* C13 (as claimed): merge_zones on a non-empty list of order blocks returns
\* exactly one zone, with the minimum of the lows and the maximum of the
\* highs; a single block comes back unchanged (low, high, kind tag and
\* provenance); merging the merged result returns it unchanged.
C13_MergeZones ==
    (frame.stage = "history" /\ frame.obs # <<>>) =>
        LET obs == frame.obs
            zones == frame.merged.items
        IN /\ Len(zones) = 1
           /\ zones[1].low = MinSeq([i \in 1..Len(obs) |-> obs[i].low])
           /\ zones[1].high = MaxSeq([i \in 1..Len(obs) |-> obs[i].high])
           /\ Len(obs) = 1 => zones[1] = obs[1]
           /\ merge_zones_dicts(zones) = frame.merged

----------------------------------------------------------------------------
(* OffsetCandleManager (specification SpecManager): the trackers of one     *)
(* manager fed the same ticks, some of which lack keys.                     *)

MaxManagerFed == 3                 \* ticks given to the manager
ManagerOffsets == <<0, 10>>        \* OffsetCandleManager.offsets, in dict order
TickKeys == {"timestamp", "last", "volume"}
TickShapes == {"full", "empty", "no_timestamp", "no_last", "no_volume"}

\* The tick dict of a given shape; a failed fetch gives the empty dict
MakeTick(shape, ts, p, v) ==
    CASE shape = "full" -> [timestamp |-> ts, last |-> p, volume |-> v]
      [] shape = "empty" -> <<>>
      [] shape = "no_timestamp" -> [last |-> p, volume |-> v]
      [] shape = "no_last" -> [timestamp |-> ts, volume |-> v]
      [] shape = "no_volume" -> [timestamp |-> ts, last |-> p]

\* mutant: the cumulative volume is recorded before the price is read
add_tick_checked_LateRead(t, tick) ==
    IF TickKeys \subseteq DOMAIN tick
    THEN [raised |-> "None", tracker |-> add_tick(t, tick)]
    ELSE IF {"timestamp", "volume"} \subseteq DOMAIN tick
    THEN [raised |-> "KeyError", tracker |-> [t EXCEPT !.last_volume = Some(tick.volume)]]
    ELSE [raised |-> "KeyError", tracker |-> t]

\* CandleTracker.add_tick with its reads of the tick (lines 49-51): a missing
\* key raises KeyError before anything is assigned
add_tick_checked(t, tick) ==
    IF TickKeys \subseteq DOMAIN tick
    THEN [raised |-> "None", tracker |-> add_tick(t, tick)]
    ELSE [raised |-> "KeyError", tracker |-> t]

\* OffsetCandleManager.add_tick: the trackers in dict order; an exception
\* leaves the loop
RECURSIVE manager_add_tick(_, _, _)
manager_add_tick(trackers, order, tick) ==
    IF order = <<>> THEN [raised |-> "None", trackers |-> trackers]
    ELSE LET o == Head(order)
             r == The({add_tick_checked(trackers[o], tick)})
             after == [trackers EXCEPT ![o] = r.tracker]
         IN IF r.raised # "None" THEN [raised |-> r.raised, trackers |-> after]
            ELSE manager_add_tick(after, Tail(order), tick)

InitManager ==
    /\ tracker \in {[stage |-> "manager", duration |-> d, raised |-> "None",
                     trackers |-> [o \in {ManagerOffsets[i] : i \in DOMAIN ManagerOffsets} |->
                                     [stage |-> "live", duration |-> d, offset |-> o,
                                      current |-> <<>>, last_volume |-> NaN, df |-> <<>>]]] :
                       d \in Durations}
    /\ fed = <<>>
    /\ frame = [stage |-> "unused"]
    /\ last_tick = <<>>
    /\ cur_start = NaN
    /\ nrows = 0
    /\ buff = <<>>
    /\ rec = RecInit
    /\ trader = TraderInit
    /\ ticks = 0
    /\ phase = "idle"
    /\ checks = 0
    /\ did = "init"
    /\ closed = <<>>

\* OffsetCandleManager.add_tick(tick) on the next tick of the feed
ManagerAddTick ==
    /\ Len(fed) < MaxManagerFed
    /\ \E shape \in TickShapes, d \in CandleDeltas, p \in CandlePrices, v \in TickVolumes :
          /\ shape # "full" => (p = Px /\ v = 1000)
          /\ LET at == (IF fed = <<>> THEN 0 ELSE fed[Len(fed)].at) + d
                 tick == MakeTick(shape, at, p, v)
             IN \E r \in {manager_add_tick(tracker.trackers, ManagerOffsets, tick)} :
                   /\ tracker' = [tracker EXCEPT !.trackers = r.trackers,
                                                 !.raised = r.raised]
                   /\ fed' = Append(fed, [at |-> at, tick |-> tick])
    /\ UNCHANGED <<last_tick, cur_start, nrows, buff, rec, trader, ticks, phase, checks,
                   did, closed, frame>>

NextManager == ManagerAddTick

SpecManager == InitManager /\ [][NextManager]_vars

\* C14: add_tick with a tick that lacks timestamp, last or volume leaves the
\* open candle, the last-seen cumulative volume and the history of every
\* tracker of the manager, and so of a single tracker, exactly as before.
C14_MalformedTickNoChange ==
    [][ (tracker.stage = "manager" /\ ~(TickKeys \subseteq DOMAIN fed'[Len(fed')].tick)) =>
          \A o \in DOMAIN tracker.trackers :
             /\ tracker'.trackers[o].current = tracker.trackers[o].current
             /\ tracker'.trackers[o].last_volume = tracker.trackers[o].last_volume
             /\ tracker'.trackers[o].df = tracker.trackers[o].df ]_vars

\* C14 witness: a tick without a price has just been refused while every
\* tracker holds an open candle, a cumulative volume and a history row.
C14_Witness ==
    /\ tracker.stage = "manager"
    /\ fed # <<>>
    /\ DOMAIN fed[Len(fed)].tick = {"timestamp", "volume"}
    /\ tracker.raised = "KeyError"
    /\ \A o \in DOMAIN tracker.trackers :
          /\ tracker.trackers[o].current # <<>>
          /\ tracker.trackers[o].last_volume # NaN
          /\ tracker.trackers[o].df # <<>>

\* C15 (as claimed): a tick that lacks a key is skipped: the call that hands
\* it to the trackers (process_symbol lines 30-31, which has no handler of
\* its own) ends without an exception, the trackers are as before, and a
\* full tick that follows is taken by every tracker.
C15_MalformedTickSkipped ==
    [][ tracker.stage = "manager" =>
          LET tick == fed'[Len(fed')].tick IN
          IF TickKeys \subseteq DOMAIN tick
          THEN \A o \in DOMAIN tracker.trackers :
                  /\ tracker'.trackers[o].current # <<>>
                  /\ tracker'.trackers[o].current[1].close = tick.last
          ELSE /\ tracker'.raised = "None"
               /\ tracker'.trackers = tracker.trackers ]_vars

\* The ticks of the feed that carried every key
FullTicks == SelectSeq(fed, LAMBDA f : TickKeys \subseteq DOMAIN f.tick)

\* The start of the phase-shifted window of an offset-k tracker around time t
ClaimedStart(t, duration, offset) ==
    ((t - offset * MsPerSec) \div (duration * MinuteMs)) * (duration * MinuteMs)
        + offset * MsPerSec

\* Tracker o closed a candle in this step
ClosedCandle(o) == Len(tracker'.trackers[o].df) > Len(tracker.trackers[o].df)

\* C19 (as claimed): the tracker of offset k closes its candle when the tick
\* time crosses a boundary floor(time, duration) + k of its own phase, so two
\* trackers with different offsets do not close on the same tick of a feed
\* whose ticks are closer than the offsets.
C19_PhaseShiftedClose ==
    [][ (tracker.stage = "manager" /\ FullTicks # <<>>
           /\ TickKeys \subseteq DOMAIN fed'[Len(fed')].tick) =>
          LET before == FullTicks[Len(FullTicks)].at
              now == fed'[Len(fed')].at
              D == tracker.duration
          IN /\ \A o \in DOMAIN tracker.trackers :
                  ClosedCandle(o) <=> ClaimedStart(before, D, o) # ClaimedStart(now, D, o)
             /\ \A o1, o2 \in DOMAIN tracker.trackers :
                  (o1 # o2 /\ (now - before) < Abs(o1 - o2) * MsPerSec) =>
                     ~(ClosedCandle(o1) /\ ClosedCandle(o2)) ]_vars

----------------------------------------------------------------------------
(* Claims on process_symbol with a short history (specification Spec) *)

\* compute_indicators lines 24-25 (called at CandleTracker lines 70 and 107):
\* with fewer rows than data_gather_time the frame is returned as it came
WritesIndicators(len_df) == ~(len_df < data_gather_time)

\* A step that is one whole call of process_symbol
ProcessSymbolStep == ticks' = ticks + 1 /\ phase' = "checked"

C18_BufferRow ==
    /\ [][ (ProcessSymbolStep /\ nrows' >= data_gather_time) =>
             \E i \in 1..Len(buff') :
                /\ buff'[i].ts = last_tick'[1].timestamp
                /\ buff'[i].confidence = rec'.val
                /\ buff'[i].entry = rec'.entry
                /\ buff'[i].stop_loss = rec'.sl
                /\ buff'[i].timeout = rec'.timeout
                /\ buff'[i].take_profit = rec'.tp
                /\ buff'[i].num_contracts = rec'.num_contracts ]_vars
    /\ [][ \A i \in 1..Len(buff') :
             LET Realized(row) == <<row.actual_revenue, row.actual_profit, row.time_in_trade>>
             IN Realized(buff'[i]) # <<NaN, NaN, NaN>> =>
                   \/ i <= Len(buff) /\ Realized(buff[i]) = Realized(buff'[i])
                   \/ did' = "exit" ]_vars

\* C20 (as claimed): a position is opened only when the latest
\* recommendation is valid, that is its score lies outside
\* [-entry_ratio_threshold, entry_ratio_threshold], and the opened position
\* has the direction of that recommendation: long above, short below.
C20_OpensOnValidOnly ==
    [][ (~trader.in_trade /\ trader'.in_trade) =>
          /\ IsNum(rec'.val)
          /\ IsLong(Num(rec'.val)) # "None"
          /\ trader'.position = (IF IsLong(Num(rec'.val)) = "True" THEN "long" ELSE "short") ]_vars

----------------------------------------------------------------------------
(* Entry, stop-loss and take-profit without any structure (specification    *)
(* SpecLevels): no order block, no fair-value gap, no liquidity pool.       *)

LevelDirections == {"long", "short"}
LevelAtrs == {PyNone, F(0), F(2 * Point), F(10 * Point)}
LevelVwaps == {PyNone, PyNaN, F(Px - 2 * Quarter), F(Px + 3 * Quarter)}
LevelTicks ==
    {[timestamp |-> 14 * HourMs, last |-> l, mark |-> k] :
        l \in {Px, Px + 3 * Quarter}, k \in {Px, Px + Quarter}}
LevelCloses == {Px, Px + 2 * Quarter}

InitLevels ==
    /\ last_tick \in {<<t>> : t \in LevelTicks}
    /\ frame \in {[stage |-> "levels", direction |-> d, atr |-> a, vwap |-> w,
                   last_close |-> c, out |-> <<>>] :
                     d \in LevelDirections, a \in LevelAtrs, w \in LevelVwaps,
                     c \in LevelCloses}
    /\ cur_start = NaN
    /\ nrows = 0
    /\ buff = <<>>
    /\ rec = RecInit
    /\ trader = TraderInit
    /\ ticks = 0
    /\ phase = "idle"
    /\ checks = 0
    /\ did = "init"
    /\ closed = <<>>
    /\ tracker = [stage |-> "unused"]
    /\ fed = <<>>

\* _get_entry_price_, _stop_loss_helper_ and _get_take_profit_ with empty
\* structures, each on the drawn inputs
ComputeLevels ==
    /\ frame.stage = "levels"
    /\ frame.out = <<>>
    /\ frame' = [frame EXCEPT !.out =
          <<[entry |-> get_entry_price(frame.last_close, Tick, frame.direction,
                                       PyList(<<>>), <<>>, frame.atr, frame.vwap),
             sl |-> stop_loss_helper(Tick.last, frame.direction, PyNone, PyList(<<>>),
                                     PyList(<<>>), frame.atr),
             tp |-> get_take_profit(Tick.last, frame.direction, PyNone, PyList(<<>>),
                                    PyList(<<>>), frame.atr, frame.vwap)]>>]
    /\ UNCHANGED <<last_tick, cur_start, nrows, buff, rec, trader, ticks, phase, checks,
                   did, closed, tracker, fed>>

NextLevels == ComputeLevels

SpecLevels == InitLevels /\ [][NextLevels]_vars

\* C17 (as claimed): with no order block, fair-value gap or liquidity pool,
\* the entry, the stop-loss and the take-profit are each a number, for both
\* directions, every ATR (0 and missing included) and every VWAP (missing
\* included).
C17_LevelsWithoutStructure ==
    (frame.stage = "levels" /\ frame.out # <<>>) =>
        /\ frame.out[1].entry.kind = "float"
        /\ frame.out[1].sl.kind = "float"
        /\ frame.out[1].tp.kind = "float"

----------------------------------------------------------------------------
(* Stop-loss and take-profit on drawn anchors (specification SpecAnchors):  *)
(* every combination of order-block range, liquidity pools, FVG zones,      *)
(* VWAP, positive ATR and 5-candle structure.                               *)

\* A candle whose high and low are not on the quarter grid, and one with a
\* low far below the others
BarOdd == [open |-> Px, high |-> Px + 17, low |-> Px - 13, close |-> Px, volume |-> 10]
BarDeep == [open |-> Px, high |-> Px + 30 * Point, low |-> Px - 30 * Point, close |-> Px,
            volume |-> 10]

AnchorAtrs == {F(12), F(2 * Point), F(10 * Point)}      \* 0.3, 2 and 10 points
AnchorEntries == {Px, Px + 3 * Quarter}
AnchorObRanges ==
    {PyNone,
     [kind |-> "tuple", high |-> Px + Quarter, low |-> Px - 4 * Quarter],
     [kind |-> "tuple", high |-> Px + 6 * Point, low |-> Px - 6 * Point]}
AnchorPools ==
    {PyList(<<>>),
     PyList(<<[low |-> Px - 2 * Quarter, high |-> Px + 6 * Quarter]>>),
     PyList(<<[low |-> Px - 6 * Quarter, high |-> Px - 2 * Quarter]>>)}
AnchorFvgs ==
    {PyList(<<>>),
     PyList(<< <<Px - 3 * Quarter, Px - Quarter>> >>),
     PyList(<< <<Px + Quarter, Px + 5 * Quarter>> >>)}
AnchorVwaps == {PyNone, F(Px), F(Px + 2 * Quarter)}
AnchorHistories ==
    {<<BarFlat, BarFlat>>,
     [i \in 1..5 |-> BarFlat],
     [i \in 1..5 |-> IF i = 3 THEN BarOdd ELSE BarFlat],
     [i \in 1..5 |-> IF i = 2 THEN BarDeep ELSE BarFlat]}

InitAnchors ==
    /\ frame \in {[stage |-> "anchors", direction |-> d, atr |-> a, entry |-> e,
                   ob_range |-> o, liq_pools |-> l, fvg_zones |-> f, vwap |-> w,
                   df |-> h, out |-> <<>>] :
                     d \in LevelDirections, a \in AnchorAtrs, e \in AnchorEntries,
                     o \in AnchorObRanges, l \in AnchorPools, f \in AnchorFvgs,
                     w \in AnchorVwaps, h \in AnchorHistories}
    /\ last_tick = <<>>
    /\ cur_start = NaN
    /\ nrows = 0
    /\ buff = <<>>
    /\ rec = RecInit
    /\ trader = TraderInit
    /\ ticks = 0
    /\ phase = "idle"
    /\ checks = 0
    /\ did = "init"
    /\ closed = <<>>
    /\ tracker = [stage |-> "unused"]
    /\ fed = <<>>

\* The tick of the entry computation: last is the drawn price and mark lies
\* off the quarter grid
AnchorTick == [mark |-> frame.entry + 3, last |-> frame.entry]

\* _get_entry_price_, _stop_loss_helper_, _get_stop_loss_ and
\* _get_take_profit_ on the drawn anchors
ComputeAnchored ==
    /\ frame.stage = "anchors"
    /\ frame.out = <<>>
    /\ frame' = [frame EXCEPT !.out =
          <<[entry |-> get_entry_price(frame.df[Len(frame.df)].close, AnchorTick,
                                       frame.direction, frame.fvg_zones, <<>>, frame.atr,
                                       frame.vwap),
             helper |-> stop_loss_helper(frame.entry, frame.direction, frame.ob_range,
                                         frame.liq_pools, frame.fvg_zones, frame.atr),
             sl |-> get_stop_loss(frame.df, frame.entry, frame.direction, frame.ob_range,
                                  frame.fvg_zones, frame.atr, frame.liq_pools),
             tp |-> get_take_profit(frame.entry, frame.direction, frame.ob_range,
                                    frame.fvg_zones, frame.liq_pools, frame.atr,
                                    frame.vwap)]>>]
    /\ UNCHANGED <<last_tick, cur_start, nrows, buff, rec, trader, ticks, phase, checks,
                   did, closed, tracker, fed>>

NextAnchors == ComputeAnchored

SpecAnchors == InitAnchors /\ [][NextAnchors]_vars

\* The levels have been computed from the anchors
Anchored == frame.stage = "anchors" /\ frame.out # <<>>

\* Half a quarter point: the most that the final rounding moves a price
HalfQuarter == Quarter \div 2

\* C21 (as claimed): for ATR > 0 the composite stop of the helper is never
\* farther than 2 x ATR from entry, up to the final quarter-point rounding.
C21_StopWithinTwoAtr ==
    Anchored =>
        Abs(frame.entry - frame.out[1].helper.v) <= 2 * frame.atr.v + HalfQuarter

\* The structure-based candidate: the 5-candle rolling extreme moved a
\* quarter point away from the market (missing below five candles)
StructureStop ==
    LET x == RollingExtreme(frame.df, frame.direction) IN
    IF x.kind # "float" THEN NaN
    ELSE IF frame.direction = "long" THEN Some(x.v - Quarter) ELSE Some(x.v + Quarter)

\* C22 (as claimed): the final stop-loss is the tighter of the structure
\* stop and the composite stop: with both candidates on the adverse side of
\* entry, the higher of the two for a long and the lower of the two for a
\* short.
C22_TighterStop ==
    (Anchored /\ StructureStop # NaN) =>
        LET a == Num(StructureStop)
            b == frame.out[1].helper.v
        IN /\ (frame.direction = "long" /\ a < frame.entry /\ b < frame.entry) =>
                 frame.out[1].sl = F(Max2(a, b))
           /\ (frame.direction = "short" /\ a > frame.entry /\ b > frame.entry) =>
                 frame.out[1].sl = F(Min2(a, b))

\* The take-profit target after the zone and VWAP adjustments and before the
\* fallback, in half units (TakeProfit lines 46-71), written from the
\* statement: 1.5 x range, first FVG edge and first pool edge between entry
\* and target, capped by VWAP
AdjustedTarget ==
    LET long == frame.direction = "long"
        e == frame.entry
        r == IF frame.ob_range.kind = "tuple"
             THEN Abs(e - (IF long THEN frame.ob_range.low ELSE frame.ob_range.high))
             ELSE 5 * Point
        t0 == IF long THEN 2 * e + 3 * r ELSE 2 * e - 3 * r
        Between(x, t) == IF long THEN 2 * x > 2 * e /\ 2 * x < t
                         ELSE 2 * x < 2 * e /\ 2 * x > t
        fvgs == frame.fvg_zones.items
        t1 == IF fvgs # <<>> /\ Between(IF long THEN fvgs[1][1] ELSE fvgs[1][2], t0)
              THEN 2 * (IF long THEN fvgs[1][1] ELSE fvgs[1][2]) ELSE t0
        pools == frame.liq_pools.items
        t2 == IF pools # <<>> /\ Between(IF long THEN pools[1].high ELSE pools[1].low, t1)
              THEN IF long THEN 2 * (pools[1].high - Quarter) ELSE 2 * (pools[1].low + Quarter)
              ELSE t1
    IN IF frame.vwap.kind = "float"
       THEN IF long THEN Min2(t2, 2 * frame.vwap.v) ELSE Max2(t2, 2 * frame.vwap.v)
       ELSE t2

\* C23 (as claimed): for ATR > 0 the take-profit is never more than 4 x ATR
\* from entry on the profit side, and whenever the adjusted target does not
\* lie on the profit side of entry the result is entry + 3 x ATR for a long
\* and entry - 3 x ATR for a short (up to the quarter-point rounding).
C23_TakeProfitBounds ==
    Anchored =>
        LET long == frame.direction = "long"
            e == frame.entry
            atr == frame.atr.v
            tp == frame.out[1].tp.v
            OnProfitSide == IF long THEN AdjustedTarget > 2 * e ELSE AdjustedTarget < 2 * e
        IN /\ long => tp <= e + 4 * atr + HalfQuarter
           /\ ~long => tp >= e - 4 * atr - HalfQuarter
           /\ ~OnProfitSide =>
                 tp = RoundQuarter(IF long THEN 2 * e + 6 * atr ELSE 2 * e - 6 * atr, 2)

\* A price on the quarter-point grid
OnQuarterGrid(x) == x.kind = "float" /\ x.v % Quarter = 0

\* C24 (as claimed): the entry, stop-loss and take-profit of a recommendation
\* are integer multiples of 0.25, whichever branch produced them, the branch
\* where the structure stop is the final stop-loss included.
C24_QuarterMultiples ==
    Anchored =>
        /\ OnQuarterGrid(frame.out[1].entry)
        /\ OnQuarterGrid(frame.out[1].tp)
        /\ OnQuarterGrid(frame.out[1].sl)

----------------------------------------------------------------------------
(* Fvg._score_fvg_ on drawn gaps (specification SpecFvg) *)

MaxGaps == 6                       \* gaps in the list handed to the score

\* A gap with the price strictly inside, one with the price on its lower
\* bound, and one that does not hold the price
Gaps == {<<Px - Quarter, Px + Quarter>>, <<Px, Px + 2 * Quarter>>,
         <<Px + Quarter, Px + 2 * Quarter>>}
GapLists == UNION {[1..k -> Gaps] : k \in 0..MaxGaps}

InitFvg ==
    /\ frame \in {[stage |-> "gaps", price |-> Px, fvg_zones |-> z, out |-> <<>>] :
                     z \in GapLists}
    /\ last_tick = <<>>
    /\ cur_start = NaN
    /\ nrows = 0
    /\ buff = <<>>
    /\ rec = RecInit
    /\ trader = TraderInit
    /\ ticks = 0
    /\ phase = "idle"
    /\ checks = 0
    /\ did = "init"
    /\ closed = <<>>
    /\ tracker = [stage |-> "unused"]
    /\ fed = <<>>

\* score_fvg(price, zones, "long") and score_fvg(price, zones, "short"), as
\* make_rec lines 73-76 call them
ScoreFvg ==
    /\ frame.stage = "gaps"
    /\ frame.out = <<>>
    /\ frame' = [frame EXCEPT !.out =
          <<[long |-> score_fvg(frame.price, frame.fvg_zones, "long"),
             short |-> score_fvg(frame.price, frame.fvg_zones, "short")]>>]
    /\ UNCHANGED <<last_tick, cur_start, nrows, buff, rec, trader, ticks, phase, checks,
                   did, closed, tracker, fed>>

NextFvg == ScoreFvg

SpecFvg == InitFvg /\ [][NextFvg]_vars

\* The number of gaps with the price strictly inside
StrictlyInside(price, zones) ==
    Cardinality({i \in 1..Len(zones) : zones[i][1] < price /\ price < zones[i][2]})

\* C25 (as claimed): the FVG score is s x min(2n, 10), n the number of gaps
\* with the price strictly inside, and the sign s of a long query is the
\* opposite of the sign of a short query.
C25_FvgScore ==
    (frame.stage = "gaps" /\ frame.out # <<>>) =>
        LET m == Min2(2 * StrictlyInside(frame.price, frame.fvg_zones), 10)
        IN \E sgn \in {-1, 1} :
              /\ frame.out[1].long = PyInt(sgn * m)
              /\ frame.out[1].short = PyInt(-sgn * m)

----------------------------------------------------------------------------
(* Claims on the zones merged in make_rec (specification SpecRec) *)

\* The one envelope of a non-empty list of numbers
Envelope(lows, highs) == PyList(<<[low |-> MinSeq(lows), high |-> MaxSeq(highs)]>>)

\* C26 (as claimed): in make_rec the FVG zones and the liquidity-pool levels
\* of either direction, when not empty, are merged into exactly one envelope
\* with low = the minimum and high = the maximum over all inputs.
C26_MergedEnvelope ==
    frame.stage \in {"resolved", "raised"} =>
        \A d \in {"short", "long"} :
           LET fvgs == frame.fvgs[d]
               liq == frame.liq[d]
           IN /\ fvgs # <<>> =>
                    merge_zones_tuples(fvgs) =
                       Envelope([i \in 1..Len(fvgs) |-> fvgs[i][1]],
                                [i \in 1..Len(fvgs) |-> fvgs[i][2]])
              /\ liq # <<>> => merge_zones_numbers(liq) = Envelope(liq, liq)

\* The nearest-block lookup as make_rec performs it (lines 99, 103, 109)
LookupInMakeRec ==
    get_nearest_ob_range(merge_zones_dicts(frame.obs).items, Tick.last,
                         Direction(IsLong(frame.rec_val.v)))

C28_VariantMean ==
    /\ frame.stage = "scored" =>
          /\ Len(frame.components) = 7
          /\ \A i \in 1..7 : frame.components[i].kind \in {"int", "half"}
          /\ frame.score.kind = "int"
          /\ LET total == SumSeq([i \in 1..7 |->
                                    IF frame.components[i].kind = "int"
                                    THEN 2 * frame.components[i].v
                                    ELSE frame.components[i].v])
             IN Abs(14 * frame.score.v - total) <= 7
    /\ frame.stage \in {"resolved", "raised"} => frame.rec_val.kind = "int"

----------------------------------------------------------------------------
(* An open trade under a feed that never stops (specification SpecHold).    *)
(* The trade was opened at time 0 with the stop-loss, take-profit and       *)
(* timeout of the buffer's latest row, any of which may be missing.  Ticks  *)
(* arrive 120 s apart; the clock of the model stops counting after          *)
(* MaxHoldTicks ticks, when every timeout that get_timeout returns (at most *)
(* 300 s) has long elapsed.                                                 *)

MaxHoldTicks == 4
HoldTimeouts == {NaN, Some(180), Some(300)}

OpenTrades ==
    {[in_trade |-> TRUE, trade_entry_time |-> Some(Strptime(0)), entry_price |-> Some(Px),
      sl |-> sl, tp |-> tp, timeout |-> to, position |-> pos,
      balance |-> starting_balance * Point] :
        pos \in LevelDirections, to \in HoldTimeouts,
        sl \in {NaN, Some(Px - 2 * Quarter), Some(Px + 2 * Quarter)},
        tp \in {NaN, Some(Px - 4 * Quarter), Some(Px + 4 * Quarter)}}

InitHold ==
    /\ trader \in OpenTrades
    /\ last_tick = <<[timestamp |-> 0, last |-> Px]>>
    /\ ticks = 0
    /\ phase = "holding"
    /\ did = "init"
    /\ cur_start = NaN
    /\ nrows = data_gather_time
    /\ buff = <<>>
    /\ rec = RecInit
    /\ checks = 0
    /\ closed = <<>>
    /\ frame = [stage |-> "unused"]
    /\ tracker = [stage |-> "unused"]
    /\ fed = <<>>

\* The next tick arrives and Trader.check_trading runs on it
HoldTick ==
    /\ phase = "holding"
    /\ \E p \in TickPrices :
       \E tick \in {[timestamp |-> IF ticks < MaxHoldTicks
                                   THEN Tick.timestamp + 120 * MsPerSec
                                   ELSE Tick.timestamp,
                     last |-> p]} :
       \E r \in {check_trading(trader, buff, tick, nrows)} :
          /\ last_tick' = <<tick>>
          /\ trader' = r.trader
          /\ buff' = r.buff
          /\ did' = r.did
    /\ ticks' = IF ticks < MaxHoldTicks THEN ticks + 1 ELSE ticks
    /\ UNCHANGED <<cur_start, nrows, rec, phase, checks, closed, frame, tracker, fed>>

NextHold == HoldTick

SpecHold == InitHold /\ [][NextHold]_vars /\ WF_vars(HoldTick)

\* C29 (as claimed): once a trade is open and ticks keep arriving, the trade
\* is eventually closed, whatever stop-loss, take-profit and timeout were
\* captured at entry, missing ones included.
C29_EventuallyClosed == (phase = "holding" /\ trader.in_trade) ~> ~trader.in_trade

----------------------------------------------------------------------------
(* Liquidity pools and sweeps of one candle history (specification          *)
(* SpecSweep).  Pool levels are means of rounded lows or highs: they are    *)
(* integers counted in 1/(40 x LevelScale) point, and the closes handed to  *)
(* the scorer are counted in the same unit.                                 *)

MaxSweepBars == 4
pool_tolerance == Quarter
pool_lookback == 30
group_size == 2

RECURSIVE Factorial(_)
Factorial(n) == IF n <= 1 THEN 1 ELSE n * Factorial(n - 1)

\* hundredths of a point are 5/2 of a price unit; a mean of up to
\* MaxSweepBars levels divides by at most MaxSweepBars
CentScale == 5
LevelScale == CentScale * Factorial(MaxSweepBars)

\* Series.round(2): the nearest hundredth, ties to the even hundredth;
\* the result is counted in 1/200 point
Round2(v) == 2 * RoundHalfEven(CentScale * v, 2)

SweepBars ==
    {[low |-> Px - 2 * Quarter, high |-> Px + 2 * Quarter, close |-> Px],
     [low |-> Px - 17, high |-> Px + 23, close |-> Px - 2 * Quarter],
     [low |-> Px - 4 * Quarter, high |-> Px - Quarter, close |-> Px - 3 * Quarter],
     [low |-> Px + Quarter, high |-> Px + 4 * Quarter, close |-> Px + 3 * Quarter],
     [low |-> Px - 23, high |-> Px + 17, close |-> Px + 2 * Quarter]}

SweepHistories == UNION {[1..k -> SweepBars] : k \in 1..MaxSweepBars}

\* lines 41-59: the pools in the order the loop appends them
RECURSIVE PoolLoop(_, _, _, _)
PoolLoop(levels, i, pools, visited) ==
    IF i > Len(levels) THEN pools
    ELSE LET price == levels[i]
             Near(l) == Abs(l - price) <= CentScale * pool_tolerance
             similar == SelectSeq(levels, Near)
         IN IF price \in visited \/ Len(similar) < group_size
            THEN PoolLoop(levels, i + 1, pools, visited)
            ELSE PoolLoop(levels, i + 1,
                          Append(pools, (SumSeq(similar) * Factorial(MaxSweepBars))
                                            \div Len(similar)),
                          visited \cup {similar[j] : j \in 1..Len(similar)})

\* sorted(..., reverse=True) for long, sorted(...) for short
RECURSIVE SortedPools(_, _)
SortedPools(s, descending) ==
    IF s = <<>> THEN <<>>
    ELSE LET h == Head(s)
             rest == SortedPools(Tail(s), descending)
             Before(x) == IF descending THEN x > h ELSE x < h
             NotBefore(x) == ~Before(x)
         IN SelectSeq(rest, Before) \o <<h>> \o SelectSeq(rest, NotBefore)

\* lines 41-59 on the lows (long) or highs (short) of the last rows
PoolsFound(df, direction) ==
    LET lb == Min2(pool_lookback, Len(df))
        prices == SubSeq(df, Len(df) - lb + 1, Len(df))
        levels == [i \in 1..Len(prices) |->
                      Round2(IF direction = "long" THEN prices[i].low ELSE prices[i].high)]
    IN PoolLoop(levels, 1, <<>>, {})

\* the detector without the filter on the latest close of lines 64 and 66
get_liquidity_pools_Unfiltered(df, direction) ==
    LET pools == PoolsFound(df, direction)
    IN SortedPools(pools, direction = "long")

\* LiquiditySweep._get_liquidity_pools
get_liquidity_pools(df, direction) ==
    LET pools == PoolsFound(df, direction)
        last_price == LevelScale * df[Len(df)].close
        Below(p) == p < last_price
        Above(p) == p > last_price
        kept == IF direction = "long" THEN SelectSeq(pools, Below)
                ELSE SelectSeq(pools, Above)
    IN SortedPools(kept, direction = "long")

\* the closes of df in the unit of the pool levels
ScaledCloses(df) == [i \in 1..Len(df) |-> [close |-> LevelScale * df[i].close]]

InitSweep ==
    /\ frame \in {[stage |-> "sweep", df |-> h, out |-> <<>>] : h \in SweepHistories}
    /\ last_tick = <<>>
    /\ cur_start = NaN
    /\ nrows = 0
    /\ buff = <<>>
    /\ rec = RecInit
    /\ trader = TraderInit
    /\ ticks = 0
    /\ phase = "idle"
    /\ checks = 0
    /\ did = "init"
    /\ closed = <<>>
    /\ tracker = [stage |-> "unused"]
    /\ fed = <<>>

\* make_rec lines 66-77: pools and sweep score of both directions, and the
\* sweep component kept for the variant
ScoreSweep ==
    /\ frame.stage = "sweep"
    /\ frame.out = <<>>
    /\ \E short \in {get_liquidity_pools(frame.df, "short")} :
       \E long \in {get_liquidity_pools(frame.df, "long")} :
       \E s \in {score_liquidity_sweep(ScaledCloses(frame.df), "short", short)} :
       \E l \in {score_liquidity_sweep(ScaledCloses(frame.df), "long", long)} :
          frame' = [frame EXCEPT !.out =
                       <<[liq |-> [short |-> short, long |-> long],
                          score |-> [short |-> s, long |-> l],
                          sweep_score |-> Stronger(Stronger(PyInt(0), s), l)]>>]
    /\ UNCHANGED <<last_tick, cur_start, nrows, buff, rec, trader, ticks, phase, checks,
                   did, closed, tracker, fed>>

NextSweep == ScoreSweep

SpecSweep == InitSweep /\ [][NextSweep]_vars

\* C30: scoring liquidity sweeps of a history against the pools the detector
\* returns for that history and direction yields 0 for either direction, so
\* the sweep component of the variant's score is 0; the returned pools lie
\* strictly below the latest close for long and strictly above it for short.
C30_NoSweepEverScored ==
    (frame.stage = "sweep" /\ frame.out # <<>>) =>
        LET o == frame.out[1]
            last_price == LevelScale * frame.df[Len(frame.df)].close
        IN /\ o.score.long = PyInt(0)
           /\ o.score.short = PyInt(0)
           /\ o.sweep_score = PyInt(0)
           /\ \A i \in 1..Len(o.liq.long) : o.liq.long[i] < last_price
           /\ \A i \in 1..Len(o.liq.short) : o.liq.short[i] > last_price

\* a history with a pool on each side of the latest close, whose previous
\* close lies above the long pool and below the short pool
C30_Witness ==
    /\ frame.stage = "sweep" /\ frame.out # <<>>
    /\ Len(frame.df) > 1
    /\ LET o == frame.out[1]
           prior_price == LevelScale * frame.df[Len(frame.df) - 1].close
       IN /\ o.liq.long # <<>> /\ o.liq.short # <<>>
          /\ \E i \in 1..Len(o.liq.long) : prior_price > o.liq.long[i]
          /\ \E i \in 1..Len(o.liq.short) : prior_price < o.liq.short[i]

====
